---------------------------- MODULE Spec2Model ----------------------------
(***************************************************************************)
(* A model of mm.c, a 64-bit segregated-free-list memory allocator.        *)
(*                                                                         *)
(* The arena is the byte range [HeapLo, HeapLo + brk); it is held as a map  *)
(* from the addresses of its 8-byte words to their values, in which a word *)
(* that still has the content the arena was delivered with (FreshWord) is  *)
(* left out.  Every pointer of the program is a byte address.              *)
(* A size_t value v is represented by the                                  *)
(* integer s with v = s mod 2^64 (two's complement), so that additions and *)
(* subtractions wrap as in C; comparisons of size_t values go through      *)
(* ULt / ULe.                                                              *)
(***************************************************************************)
EXTENDS Integers, Sequences, FiniteSets, TLC

(***************************************************************************)
(* Bounds of the model.                                                    *)
(***************************************************************************)
\* the arena has room for the sentinels, MaxChunks chunks and half a chunk
MaxChunks == 2
\* the caller holds at most MaxLive allocations at a time
MaxLive == 3
\* the caller makes at most MaxCalls calls
MaxCalls == 6
\* the product of calloc is taken in words of WordBits bits (size_t scaled down)
WordBits == 14

\* get_list_index is tried on the block sizes 16, 32, ..., 16 * MaxSizeUnits
MaxSizeUnits == 16400

(***************************************************************************)
(* Program constants.                                                      *)
(***************************************************************************)
NULL == 0
SEG_LIST_NUM == 15
SEARCH_LIMIT == 10
CLOSE_ENOUGH == 46
s_list_mini == 32
s_list_1 == 64
s_list_2 == 128
s_list_3 == 256
s_list_4 == 512
s_list_5 == 1024
s_list_6 == 2048
s_list_7 == 4096
s_list_8 == 8192
s_list_9 == 16384
s_list_10 == 32768
s_list_11 == 65536
s_list_12 == 131072
s_list_13 == 262144
wsize == 8
dsize == 2 * wsize
min_block_size == dsize
chunksize == 2048
alloc_mask == 1
prev_alloc_mask == 2
prev_mini_mask == 4
\* SIZE_MAX, 2^64 - 1, in the two's complement representation
SIZE_MAX == -1

(***************************************************************************)
(* The arena (memlib): base address, growth limit, content of new words.   *)
(***************************************************************************)
HeapLo == 4096
FreshWord == 85
MaxHeapBytes == 2 * wsize + MaxChunks * chunksize + chunksize \div 2

VARIABLES
    mem,                  \* the arena's words: word address -> value
    brk,                  \* the arena's length in bytes (mem_heapsize)
    cap,                  \* the length the arena refuses to grow beyond
    segregated_free_list, \* the 15 list heads
    heap_start,           \* pointer to the first block header, NULL before mm_init
    fault,                \* the program has written outside the arena or looped
    live,                 \* payload pointers the caller holds
    ncalls,               \* the number of calls made
    last                  \* the last public call: its arguments and result

vars == <<mem, brk, cap, segregated_free_list, heap_start, fault, live, ncalls, last>>

\* K applied to the value v: the C idiom "T x = v; ... x ... x ..."
Let1(v, K(_)) == K(v)

(***************************************************************************)
(* size_t arithmetic.                                                      *)
(***************************************************************************)
ULt(a, b) == IF (a < 0) = (b < 0) THEN a < b ELSE a >= 0
ULe(a, b) == a = b \/ ULt(a, b)

max(x, y) == IF ULt(y, x) THEN x ELSE y

round_up(size, n) == n * ((size + (n - 1)) \div n)

BitOr(word, mask) == IF (word \div mask) % 2 = 1 THEN word ELSE word + mask

pack(size, alloc, prev_alloc, prev_mini) ==
    LET w1 == IF alloc THEN BitOr(size, alloc_mask) ELSE size
        w2 == IF prev_alloc THEN BitOr(w1, prev_alloc_mask) ELSE w1
    IN  IF prev_mini THEN BitOr(w2, prev_mini_mask) ELSE w2

extract_size(word) == word - (word % 16)
extract_alloc(word) == word % 2 = 1
extract_prev_alloc(word) == (word \div 2) % 2 = 1
extract_prev_mini(word) == (word \div 4) % 2 = 1

(***************************************************************************)
(* Memory.  A heap h is a record [mem, brk, cap, fl, fault]: the arena,    *)
(* its length, its limit, the list heads and the fault flag.  The          *)
(* program's functions are operators from heaps to heaps.                  *)
(***************************************************************************)
InArena(h, a) == a >= HeapLo /\ a % wsize = 0 /\ a < HeapLo + h.brk

mem_heap_lo == HeapLo
mem_heap_hi(h) == HeapLo + h.brk - 1
mem_heapsize(h) == h.brk

Rd(h, a) == IF a \in DOMAIN h.mem THEN h.mem[a] ELSE FreshWord

\* the map m with the word at a set to v
Store(m, a, v) ==
    IF v = FreshWord THEN [x \in DOMAIN m \ {a} |-> m[x]]
    ELSE IF a \in DOMAIN m THEN [m EXCEPT ![a] = v]
    ELSE (a :> v) @@ m

Wr(h, a, v) ==
    IF InArena(h, a) THEN [h EXCEPT !.mem = Store(h.mem, a, v)]
    ELSE [h EXCEPT !.fault = TRUE]

\* mem_sbrk(incr): [h |-> the grown heap, bp |-> the old break], bp = -1 on refusal
mem_sbrk(h, incr) ==
    IF incr < 0 \/ mem_heapsize(h) + incr > h.cap
    THEN [h |-> h, bp |-> -1]
    ELSE [h  |-> [h EXCEPT !.brk = h.brk + incr],
          bp |-> HeapLo + mem_heapsize(h)]

(***************************************************************************)
(* Short helper functions.                                                 *)
(***************************************************************************)
get_size(h, block) == extract_size(Rd(h, block))
get_alloc(h, block) == extract_alloc(Rd(h, block))
get_prev_alloc(h, block) == extract_prev_alloc(Rd(h, block))
get_prev_mini(h, block) == extract_prev_mini(Rd(h, block))

payload_to_header(bp) == bp - wsize
\* mutant: the block pointer itself is handed out
header_to_payload_NoOffset(block) == block
header_to_payload(block) == block + wsize
header_to_footer(h, block) == block + wsize + get_size(h, block) - dsize
footer_to_header(h, footer) == footer + wsize - extract_size(Rd(h, footer))
get_payload_size(h, block) == get_size(h, block) - wsize

\* the link fields of a free block
FreePrevAt(block) == block + wsize
FreeNextAt(block) == block + 2 * wsize
MiniNextAt(block) == block + wsize

\* mutant: the epilogue always says its predecessor is allocated
write_epilogue_PrevAlloc(h, block, prev_alloc, prev_mini) ==
    Wr(h, block, pack(0, TRUE, TRUE, prev_mini))

write_epilogue(h, block, prev_alloc, prev_mini) ==
    Wr(h, block, pack(0, TRUE, prev_alloc, prev_mini))

\* mutant: no footer is written
write_block_NoFooter(h, block, size, alloc, prev_alloc, prev_mini) ==
    Wr(h, block, pack(size, alloc, prev_alloc, prev_mini))

write_block(h, block, size, alloc, prev_alloc, prev_mini) ==
    Let1(Wr(h, block, pack(size, alloc, prev_alloc, prev_mini)),
         LAMBDA h1 :
            IF ~alloc /\ ULt(min_block_size, size)
            THEN Wr(h1, header_to_footer(h1, block),
                    pack(size, alloc, prev_alloc, prev_mini))
            ELSE h1)

update_block(h, block, size, alloc, prev_alloc, prev_mini) ==
    Wr(h, block, pack(size, alloc, prev_alloc, prev_mini))

find_next(h, block) == block + get_size(h, block)

find_prev_footer(block) == block - wsize

find_prev(h, block) ==
    IF get_prev_mini(h, block)
    THEN block - min_block_size
    ELSE LET footerp == find_prev_footer(block)
         IN  IF extract_size(Rd(h, footerp)) = 0 THEN NULL
             ELSE footer_to_header(h, footerp)

\* mutant: a size equal to s_list_mini counts as mini
get_list_index_MiniInclusive(size) ==
    IF ULe(size, s_list_7)
    THEN IF ULe(size, s_list_3)
         THEN IF ULe(size, s_list_1)
              THEN IF ULe(size, s_list_mini) THEN 0 ELSE 1
              ELSE IF ULe(size, s_list_2) THEN 2 ELSE 3
         ELSE IF ULe(size, s_list_5)
              THEN IF ULe(size, s_list_4) THEN 4 ELSE 5
              ELSE IF ULe(size, s_list_6) THEN 6 ELSE 7
    ELSE IF ULe(size, s_list_11)
         THEN IF ULe(size, s_list_9)
              THEN IF ULe(size, s_list_8) THEN 8 ELSE 9
              ELSE IF ULe(size, s_list_10) THEN 10 ELSE 11
         ELSE IF ULe(size, s_list_13)
              THEN IF ULe(size, s_list_12) THEN 12 ELSE 13
              ELSE 14


get_list_index(size) ==
    IF ULe(size, s_list_7)
    THEN IF ULe(size, s_list_3)
         THEN IF ULe(size, s_list_1)
              THEN IF ULt(size, s_list_mini) THEN 0 ELSE 1
              ELSE IF ULe(size, s_list_2) THEN 2 ELSE 3
         ELSE IF ULe(size, s_list_5)
              THEN IF ULe(size, s_list_4) THEN 4 ELSE 5
              ELSE IF ULe(size, s_list_6) THEN 6 ELSE 7
    ELSE IF ULe(size, s_list_11)
         THEN IF ULe(size, s_list_9)
              THEN IF ULe(size, s_list_8) THEN 8 ELSE 9
              ELSE IF ULe(size, s_list_10) THEN 10 ELSE 11
         ELSE IF ULe(size, s_list_13)
              THEN IF ULe(size, s_list_12) THEN 12 ELSE 13
              ELSE 14

(***************************************************************************)
(* The free lists.                                                         *)
(***************************************************************************)
\* mutant: the old head's back link is not set
insert_to_free_list_NoBackLink(h, block) ==
    IF block = NULL THEN h
    ELSE LET seg  == get_list_index(get_size(h, block))
             head == h.fl[seg]
         IN  [Wr(Wr(h, FreePrevAt(block), NULL), FreeNextAt(block), head)
                 EXCEPT !.fl[seg] = block]

insert_to_free_list(h, block) ==
    IF block = NULL THEN h
    ELSE LET seg  == get_list_index(get_size(h, block))
             head == h.fl[seg]
         IN  IF head = NULL
             THEN Wr(Wr([h EXCEPT !.fl[seg] = block], FreePrevAt(block), NULL),
                     FreeNextAt(block), NULL)
             ELSE [Wr(Wr(Wr(h, FreePrevAt(block), NULL), FreeNextAt(block), head),
                      FreePrevAt(head), block)
                     EXCEPT !.fl[seg] = block]

delete_from_free_list(h, block) ==
    IF block = NULL THEN h
    ELSE LET seg  == get_list_index(get_size(h, block))
             head == h.fl[seg]
             prev == Rd(h, FreePrevAt(block))
             next == Rd(h, FreeNextAt(block))
         IN  IF head = block
             THEN IF next # NULL
                  THEN Wr([h EXCEPT !.fl[seg] = next], FreePrevAt(next), NULL)
                  ELSE [h EXCEPT !.fl[seg] = next]
             ELSE IF next # NULL
                  THEN Wr(Wr(h, FreeNextAt(prev), next), FreePrevAt(next), prev)
                  ELSE Wr(h, FreeNextAt(prev), next)

\* mutant: the new head's link is cleared, the former entries are dropped
insert_to_mini_free_list_DropsRest(h, block) ==
    IF block = NULL THEN h
    ELSE [Wr(h, MiniNextAt(block), NULL) EXCEPT !.fl[0] = block]


\* mutant: on a list that is not empty the block is linked behind the head
insert_to_mini_free_list_BehindHead(h, block) ==
    IF block = NULL THEN h
    ELSE LET head == h.fl[0]
         IN  IF head = NULL
             THEN Wr([h EXCEPT !.fl[0] = block], MiniNextAt(block), NULL)
             ELSE Wr(Wr(h, MiniNextAt(block), Rd(h, MiniNextAt(head))),
                     MiniNextAt(head), block)


insert_to_mini_free_list(h, block) ==
    IF block = NULL THEN h
    ELSE LET head == h.fl[0]
         IN  IF head = NULL
             THEN Wr([h EXCEPT !.fl[0] = block], MiniNextAt(block), NULL)
             ELSE [Wr(h, MiniNextAt(block), head) EXCEPT !.fl[0] = block]

\* the walk of delete_from_mini_free_list: the node before block, or -1 when
\* the walk leaves the arena or does not end within fuel steps
RECURSIVE MiniWalk(_, _, _, _, _)
MiniWalk(h, block, prev, next, fuel) ==
    IF next = block THEN prev
    ELSE IF fuel = 0 \/ ~InArena(h, next) THEN -1
    ELSE MiniWalk(h, block, next, Rd(h, MiniNextAt(next)), fuel - 1)

delete_from_mini_free_list(h, block) ==
    IF block = NULL THEN h
    ELSE LET head == h.fl[0]
         IN  IF head = NULL THEN h
             ELSE IF head = block
             THEN [h EXCEPT !.fl[0] = Rd(h, MiniNextAt(block))]
             ELSE Let1(MiniWalk(h, block, head, Rd(h, MiniNextAt(head)),
                                h.brk \div min_block_size),
                       LAMBDA prev :
                          IF prev = -1 THEN [h EXCEPT !.fault = TRUE]
                          ELSE Wr(h, MiniNextAt(prev), Rd(h, MiniNextAt(block))))

\* mutant: mini blocks are not inserted
insert_normal_or_mini_SkipMini(h, block) ==
    IF get_size(h, block) = min_block_size THEN h
    ELSE insert_to_free_list(h, block)

insert_normal_or_mini(h, block) ==
    IF get_size(h, block) = min_block_size
    THEN insert_to_mini_free_list(h, block)
    ELSE insert_to_free_list(h, block)

\* mutant: mini blocks are not unlinked
delete_normal_or_mini_SkipMini(h, block) ==
    IF get_size(h, block) = min_block_size THEN h
    ELSE delete_from_free_list(h, block)

delete_normal_or_mini(h, block) ==
    IF get_size(h, block) = min_block_size
    THEN delete_from_mini_free_list(h, block)
    ELSE delete_from_free_list(h, block)

(***************************************************************************)
(* Coalescing, extension, splitting, placement.  The functions that return *)
(* a block return a record [h |-> heap, block |-> pointer].                *)
(***************************************************************************)
\* a dereference of block: outside the arena it is a fault
Deref(h, block) == IF InArena(h, block) THEN h ELSE [h EXCEPT !.fault = TRUE]

\* coalesce_block, case 2: prev is free and next is allocated
CoalescePrev(h, block) ==
    LET block_prev      == find_prev(h, block)
        block_size      == get_size(h, block)
        block_prev_size == get_size(h, block_prev)
        prev_prev_alloc == get_prev_alloc(h, block_prev)
        prev_prev_mini  == get_prev_mini(h, block_prev)
    IN  [h |-> insert_normal_or_mini(
                   write_block(delete_normal_or_mini(Deref(h, block_prev), block_prev),
                               block_prev, block_prev_size + block_size, FALSE,
                               prev_prev_alloc, prev_prev_mini),
                   block_prev),
         block |-> block_prev]

\* coalesce_block, case 3: prev is allocated and next is free
CoalesceNext(h, block) ==
    LET block_next      == find_next(h, block)
        block_size      == get_size(h, block)
        block_next_size == get_size(h, block_next)
        prev_alloc      == get_prev_alloc(h, block)
        prev_mini       == get_prev_mini(h, block)
    IN  [h |-> insert_normal_or_mini(
                   write_block(delete_normal_or_mini(h, block_next),
                               block, block_size + block_next_size, FALSE,
                               prev_alloc, prev_mini),
                   block),
         block |-> block]

\* mutant: in case 4 the next block stays on its list
CoalesceBoth_KeepsNext(h, block) ==
    LET block_next      == find_next(h, block)
        block_prev      == find_prev(h, block)
        block_size      == get_size(h, block)
        block_prev_size == get_size(h, block_prev)
        block_next_size == get_size(h, block_next)
        prev_prev_alloc == get_prev_alloc(h, block_prev)
        prev_prev_mini  == get_prev_mini(h, block_prev)
    IN  [h |-> insert_normal_or_mini(
                   write_block(
                       delete_normal_or_mini(Deref(h, block_prev), block_prev),
                       block_prev, block_prev_size + block_size + block_next_size,
                       FALSE, prev_prev_alloc, prev_prev_mini),
                   block_prev),
         block |-> block_prev]


\* coalesce_block, case 4: prev and next are free
CoalesceBoth(h, block) ==
    LET block_next      == find_next(h, block)
        block_prev      == find_prev(h, block)
        block_size      == get_size(h, block)
        block_prev_size == get_size(h, block_prev)
        block_next_size == get_size(h, block_next)
        prev_prev_alloc == get_prev_alloc(h, block_prev)
        prev_prev_mini  == get_prev_mini(h, block_prev)
    IN  [h |-> insert_normal_or_mini(
                   write_block(
                       delete_normal_or_mini(
                           delete_normal_or_mini(Deref(h, block_prev), block_next),
                           block_prev),
                       block_prev, block_prev_size + block_size + block_next_size,
                       FALSE, prev_prev_alloc, prev_prev_mini),
                   block_prev),
         block |-> block_prev]

\* mutant: the successor keeps the prev_mini flag it had
CoalesceUpdateNext_KeepsPrevMini(h, block) ==
    LET block_next == find_next(h, block)
    IN  update_block(h, block_next, get_size(h, block_next),
                     get_alloc(h, block_next), FALSE, get_prev_mini(h, block_next))

\* mutant: the header of the block after the merged one is written as free
CoalesceUpdateNext_ClearsAlloc(h, block) ==
    LET block_next == find_next(h, block)
    IN  update_block(h, block_next, get_size(h, block_next), FALSE, FALSE, FALSE)


\* the last step of coalesce_block: the header of the block after the merged one
CoalesceUpdateNext(h, block) ==
    LET block_next == find_next(h, block)
    IN  update_block(h, block_next, get_size(h, block_next),
                     get_alloc(h, block_next), FALSE, FALSE)

\* mutant: a free successor is not merged
coalesce_block_NoNextMerge(h, block) ==
    IF get_prev_alloc(h, block)
    THEN [h |-> insert_normal_or_mini(h, block), block |-> block]
    ELSE Let1(CoalescePrev(h, block),
              LAMBDA m : [h |-> CoalesceUpdateNext(m.h, m.block), block |-> m.block])

coalesce_block(h, block) ==
    LET block_next == find_next(h, block)
        prev_alloc == get_prev_alloc(h, block)
        next_alloc == get_alloc(h, block_next)
    IN  IF prev_alloc /\ next_alloc
        THEN [h |-> insert_normal_or_mini(h, block), block |-> block]
        ELSE Let1(IF ~prev_alloc /\ next_alloc THEN CoalescePrev(h, block)
                  ELSE IF prev_alloc /\ ~next_alloc THEN CoalesceNext(h, block)
                  ELSE CoalesceBoth(h, block),
                  LAMBDA m : [h |-> CoalesceUpdateNext(m.h, m.block),
                              block |-> m.block])

\* mutant: the new block is written with prev_alloc = 0
ExtendWrite_PrevFree(h, block, size) ==
    Let1(write_block(h, block, size, FALSE, FALSE, get_prev_mini(h, block)),
         LAMBDA h1 :
            coalesce_block(write_epilogue(h1, find_next(h1, block), FALSE,
                                          size = min_block_size),
                           block))


\* extend_heap after mem_sbrk has returned bp: the new block and the epilogue
ExtendWrite(h, block, size) ==
    Let1(write_block(h, block, size, FALSE, get_prev_alloc(h, block),
                     get_prev_mini(h, block)),
         LAMBDA h1 :
            coalesce_block(write_epilogue(h1, find_next(h1, block), FALSE,
                                          size = min_block_size),
                           block))

\* mutant: the result of mem_sbrk is not checked
extend_heap_NoCheck(h, size0) ==
    Let1(mem_sbrk(h, round_up(size0, dsize)),
         LAMBDA r : ExtendWrite(r.h, payload_to_header(r.bp), round_up(size0, dsize)))

extend_heap(h, size0) ==
    Let1(mem_sbrk(h, round_up(size0, dsize)),
         LAMBDA r :
            IF r.bp = -1 THEN [h |-> h, block |-> NULL]
            ELSE ExtendWrite(r.h, payload_to_header(r.bp), round_up(size0, dsize)))

\* split_block once the remainder has been written at block_next
SplitInsert(h, block_next, rsize) ==
    LET block_next_next == find_next(h, block_next)
    IN  insert_normal_or_mini(
            update_block(h, block_next_next, get_size(h, block_next_next),
                         get_alloc(h, block_next_next), FALSE,
                         rsize = min_block_size),
            block_next)

\* mutant: the remainder is written one double word short
split_block_ShortRemainder(h, block, asize) ==
    LET block_size == get_size(h, block)
    IN  IF ULe(2 * min_block_size, block_size - asize)
        THEN Let1(write_block(h, block, asize, TRUE, get_prev_alloc(h, block),
                              get_prev_mini(h, block)),
                  LAMBDA h1 :
                     insert_normal_or_mini(
                         write_block(h1, find_next(h1, block),
                                     block_size - asize - dsize, FALSE, TRUE,
                                     asize = min_block_size),
                         find_next(h1, block)))
        ELSE h

\* mutant: a surplus of one mini block is not split off
split_block_NoMiniRemainder(h, block, asize) ==
    LET block_size == get_size(h, block)
    IN  IF ULt(min_block_size, block_size - asize)
        THEN Let1(write_block(h, block, asize, TRUE, get_prev_alloc(h, block),
                              get_prev_mini(h, block)),
                  LAMBDA h1 :
                     SplitInsert(write_block(h1, find_next(h1, block),
                                             block_size - asize, FALSE, TRUE,
                                             asize = min_block_size),
                                 find_next(h1, block), block_size - asize))
        ELSE h

split_block(h, block, asize) ==
    LET block_size == get_size(h, block)
    IN  IF ULe(min_block_size, block_size - asize)
        THEN Let1(write_block(h, block, asize, TRUE, get_prev_alloc(h, block),
                              get_prev_mini(h, block)),
                  LAMBDA h1 :
                     SplitInsert(write_block(h1, find_next(h1, block),
                                             block_size - asize, FALSE, TRUE,
                                             asize = min_block_size),
                                 find_next(h1, block), block_size - asize))
        ELSE h

\* the loops of find_fit: bucket i, list position block, the counter cont,
\* the running minimum min_diff and its block best_fit_block; seen records the
\* blocks whose size the loop has read, each with its bucket, in order.  The
\* result is the block returned, with seen.
RECURSIVE FitScan(_, _, _, _, _, _, _, _)
\* mutant: the search limit is tested before the block is looked at
FitScan_LimitFirst(h, block_size, i, block, cont, min_diff, best_fit_block, seen) ==
    IF i >= SEG_LIST_NUM THEN [block |-> best_fit_block, seen |-> seen]
    ELSE IF block = NULL
    THEN FitScan(h, block_size, i + 1,
                 IF i + 1 < SEG_LIST_NUM THEN h.fl[i + 1] ELSE NULL,
                 cont, min_diff, best_fit_block, seen)
    ELSE IF cont > SEARCH_LIMIT
    THEN FitScan(h, block_size, i + 1,
                 IF i + 1 < SEG_LIST_NUM THEN h.fl[i + 1] ELSE NULL,
                 0, min_diff, best_fit_block, seen)
    ELSE LET fits == ULe(block_size, get_size(h, block))
             less == fits /\ ULt(get_size(h, block) - block_size, min_diff)
             md   == IF less THEN get_size(h, block) - block_size ELSE min_diff
             bf   == IF less THEN block ELSE best_fit_block
             sn   == Append(seen, <<i, block>>)
         IN  IF fits /\ ULe(md, CLOSE_ENOUGH) THEN [block |-> bf, seen |-> sn]
             ELSE FitScan(h, block_size, i, Rd(h, FreeNextAt(block)), cont + 1,
                          md, bf, sn)

\* mutant: the first block that fits is returned
FitScan_FirstFit(h, block_size, i, block, cont, min_diff, best_fit_block, seen) ==
    IF i >= SEG_LIST_NUM THEN [block |-> best_fit_block, seen |-> seen]
    ELSE IF block = NULL
    THEN FitScan(h, block_size, i + 1,
                 IF i + 1 < SEG_LIST_NUM THEN h.fl[i + 1] ELSE NULL,
                 cont, min_diff, best_fit_block, seen)
    ELSE IF ULe(block_size, get_size(h, block))
    THEN [block |-> block, seen |-> Append(seen, <<i, block>>)]
    ELSE IF cont > SEARCH_LIMIT
    THEN FitScan(h, block_size, i + 1,
                 IF i + 1 < SEG_LIST_NUM THEN h.fl[i + 1] ELSE NULL,
                 0, min_diff, best_fit_block, Append(seen, <<i, block>>))
    ELSE FitScan(h, block_size, i, Rd(h, FreeNextAt(block)), cont + 1,
                 min_diff, best_fit_block, Append(seen, <<i, block>>))


FitScan(h, block_size, i, block, cont, min_diff, best_fit_block, seen) ==
    IF i >= SEG_LIST_NUM THEN [block |-> best_fit_block, seen |-> seen]
    ELSE IF block = NULL
    THEN FitScan(h, block_size, i + 1,
                 IF i + 1 < SEG_LIST_NUM THEN h.fl[i + 1] ELSE NULL,
                 cont, min_diff, best_fit_block, seen)
    ELSE LET fits == ULe(block_size, get_size(h, block))
             less == fits /\ ULt(get_size(h, block) - block_size, min_diff)
             md   == IF less THEN get_size(h, block) - block_size ELSE min_diff
             bf   == IF less THEN block ELSE best_fit_block
             sn   == Append(seen, <<i, block>>)
         IN  IF fits /\ ULe(md, CLOSE_ENOUGH) THEN [block |-> bf, seen |-> sn]
             ELSE IF cont > SEARCH_LIMIT
             THEN FitScan(h, block_size, i + 1,
                          IF i + 1 < SEG_LIST_NUM THEN h.fl[i + 1] ELSE NULL,
                          0, md, bf, sn)
             ELSE FitScan(h, block_size, i, Rd(h, FreeNextAt(block)), cont + 1,
                          md, bf, sn)

\* the scan find_fit makes when it does not take the head of the mini list
FitSearch(h, asize) ==
    FitScan(h, asize, get_list_index(asize), h.fl[get_list_index(asize)], 0,
            SIZE_MAX, NULL, << >>)

\* mutant: a request for a mini block passes over the mini list
find_fit_SkipsMini(h, asize) ==
    LET seg == get_list_index(asize)
    IN  IF seg = 0 /\ h.fl[0] # NULL
        THEN FitScan(h, asize, 1, h.fl[1], 0, SIZE_MAX, NULL, << >>).block
        ELSE FitSearch(h, asize).block


find_fit(h, asize) ==
    LET seg == get_list_index(asize)
    IN  IF seg = 0 /\ h.fl[0] # NULL THEN h.fl[0]
        ELSE FitSearch(h, asize).block

(***************************************************************************)
(* The arena's byte primitives on words.  Bytes are little-endian; every   *)
(* word of the model is below 2^32, so the upper four bytes of a word are  *)
(* zero.                                                                   *)
(***************************************************************************)
Pow256(k) == IF k = 0 THEN 1 ELSE IF k = 1 THEN 256 ELSE IF k = 2 THEN 65536 ELSE 16777216
\* the word holding the k low bytes of lo and the 8 - k high bytes of hi
MixWord(lo, hi, k) ==
    IF k >= 4 THEN lo ELSE (lo % Pow256(k)) + (hi - (hi % Pow256(k)))

\* the word addresses of the n bytes at p
WordsOf(p, n) == {p + wsize * j : j \in 0..((n - 1) \div wsize)}

\* the map m with the words at the addresses of new set to new's values
StoreAll(m, new) ==
    LET keep == (DOMAIN m \ DOMAIN new) \cup {a \in DOMAIN new : new[a] # FreshWord}
    IN  [a \in keep |-> IF a \in DOMAIN new THEN new[a] ELSE m[a]]

mem_memcpy(h, dst, src, n) ==
    IF ~ULt(0, n) THEN h
    ELSE IF n < 0 \/ \E a \in WordsOf(dst, n) \cup WordsOf(src, n) : ~InArena(h, a)
    THEN [h EXCEPT !.fault = TRUE]
    ELSE [h EXCEPT !.mem = StoreAll(h.mem,
            [a \in WordsOf(dst, n) |->
                IF a - dst + wsize <= n THEN Rd(h, src + (a - dst))
                ELSE MixWord(Rd(h, src + (a - dst)), Rd(h, a), n - (a - dst))])]

mem_memset_zero(h, dst, n) ==
    IF ~ULt(0, n) THEN h
    ELSE IF n < 0 \/ \E a \in WordsOf(dst, n) : ~InArena(h, a)
    THEN [h EXCEPT !.fault = TRUE]
    ELSE [h EXCEPT !.mem = StoreAll(h.mem,
            [a \in WordsOf(dst, n) |->
                IF a - dst + wsize <= n THEN 0
                ELSE MixWord(0, Rd(h, a), n - (a - dst))])]

(***************************************************************************)
(* The heap checker.  Every helper returns the value the C function        *)
(* returns; the loops are recursive operators.                             *)
(***************************************************************************)
check_prologue(h, prologue) ==
    ~(extract_size(Rd(h, prologue)) # 0 \/ ~extract_alloc(Rd(h, prologue)))

\* the first header of size 0 from epilogue on
RECURSIVE EpilogueFrom(_, _)
EpilogueFrom(h, epilogue) ==
    IF get_size(h, epilogue) # 0 THEN EpilogueFrom(h, find_next(h, epilogue))
    ELSE epilogue

check_epilogue(h, epilogue) ==
    ~(get_size(h, EpilogueFrom(h, epilogue)) # 0
        \/ ~get_alloc(h, EpilogueFrom(h, epilogue)))

RECURSIVE check_lie_within_heap(_, _)
check_lie_within_heap(h, block) ==
    IF get_size(h, block) # 0
    THEN IF block < mem_heap_lo \/ block > mem_heap_hi(h) THEN FALSE
         ELSE check_lie_within_heap(h, find_next(h, block))
    ELSE TRUE

RECURSIVE check_block_alignment(_, _)
check_block_alignment(h, block) ==
    IF get_size(h, block) # 0
    THEN IF get_size(h, block) % dsize # 0 THEN FALSE
         ELSE check_block_alignment(h, find_next(h, block))
    ELSE TRUE

RECURSIVE check_contiguous_free_blocks(_, _, _)
check_contiguous_free_blocks(h, prev, curr) ==
    IF get_size(h, curr) # 0
    THEN IF ~get_alloc(h, curr) /\ ~get_alloc(h, prev) THEN FALSE
         ELSE check_contiguous_free_blocks(h, curr, find_next(h, curr))
    ELSE TRUE

RECURSIVE check_header_footer_match(_, _)
check_header_footer_match(h, block) ==
    IF ULt(min_block_size, get_size(h, block)) /\ ~get_alloc(h, block)
    THEN IF get_size(h, block) # extract_size(Rd(h, header_to_footer(h, block)))
         THEN FALSE
         ELSE check_header_footer_match(h, find_next(h, block))
    ELSE TRUE

RECURSIVE check_minimum_block_size(_, _)
check_minimum_block_size(h, block) ==
    IF get_size(h, block) # 0
    THEN IF ULt(get_size(h, block), min_block_size) THEN FALSE
         ELSE check_minimum_block_size(h, find_next(h, block))
    ELSE TRUE

\* the loop of check_cycle
RECURSIVE CycleLoop(_, _, _)
CycleLoop(h, hare, tortoise) ==
    IF hare # NULL /\ Rd(h, FreeNextAt(hare)) # NULL
    THEN IF Rd(h, FreeNextAt(Rd(h, FreeNextAt(hare)))) = Rd(h, FreeNextAt(tortoise))
         THEN FALSE
         ELSE CycleLoop(h, Rd(h, FreeNextAt(Rd(h, FreeNextAt(hare)))),
                        Rd(h, FreeNextAt(tortoise)))
    ELSE TRUE

check_cycle(h, list) == CycleLoop(h, list, list)

RECURSIVE check_alloc(_, _)
check_alloc(h, block) ==
    IF block # NULL
    THEN IF get_alloc(h, block) THEN FALSE
         ELSE check_alloc(h, Rd(h, FreeNextAt(block)))
    ELSE TRUE

RECURSIVE check_bounds(_, _)
check_bounds(h, block) ==
    IF block # NULL
    THEN IF block < mem_heap_lo \/ block > mem_heap_hi(h) THEN FALSE
         ELSE check_bounds(h, Rd(h, FreeNextAt(block)))
    ELSE TRUE

RECURSIVE check_consecutive(_, _)
check_consecutive(h, block) ==
    IF block # NULL /\ Rd(h, FreeNextAt(block)) # NULL
    THEN IF Rd(h, FreePrevAt(Rd(h, FreeNextAt(block)))) # block THEN FALSE
         ELSE check_consecutive(h, Rd(h, FreeNextAt(block)))
    ELSE TRUE

\* the loop of check_bucket
RECURSIVE BucketLoop(_, _, _)
BucketLoop(h, block, seg) ==
    IF block # NULL
    THEN IF get_list_index(get_size(h, block)) # seg THEN FALSE
         ELSE BucketLoop(h, Rd(h, FreeNextAt(block)), seg)
    ELSE TRUE

check_bucket(h, list) ==
    IF list = NULL THEN TRUE
    ELSE BucketLoop(h, list, get_list_index(get_size(h, list)))

\* the results of the sub-checks mm_checkheap makes on the blocks, in order
BlockChecks(h, hs) ==
    << check_prologue(h, hs - wsize),
       check_epilogue(h, hs),
       check_lie_within_heap(h, hs),
       check_block_alignment(h, hs),
       check_header_footer_match(h, hs),
       check_minimum_block_size(h, hs),
       check_contiguous_free_blocks(h, hs, find_next(h, hs)) >>

\* the results of the sub-checks made on the lists from bucket i on, in order
RECURSIVE ListChecks(_, _)
ListChecks(h, i) ==
    IF i < SEG_LIST_NUM
    THEN << check_cycle(h, h.fl[i]),
            check_alloc(h, h.fl[i]),
            check_bounds(h, h.fl[i]),
            check_consecutive(h, h.fl[i]),
            check_bucket(h, h.fl[i]) >> \o ListChecks(h, i + 1)
    ELSE << >>

SubChecks(h, hs) == BlockChecks(h, hs) \o ListChecks(h, 1)

\* the variable consistent after it has been assigned each result in turn
RECURSIVE AssignEach(_, _)
AssignEach(consistent, results) ==
    IF results = << >> THEN consistent
    ELSE AssignEach(Head(results), Tail(results))

mm_checkheap(h, hs) == AssignEach(FALSE, SubChecks(h, hs))


(***************************************************************************)
(* The public functions.  Each returns a record with the heap h, the       *)
(* global heap_start hs and its result.                                    *)
(***************************************************************************)
\* mutant: the first epilogue says that the block before it is free
InitWrite_EpiloguePrevFree(h, start) ==
    Let1(extend_heap(Wr(Wr(h, start, pack(0, TRUE, TRUE, FALSE)),
                        start + wsize, pack(0, TRUE, FALSE, FALSE)),
                     chunksize),
         LAMBDA e : [h |-> e.h, hs |-> start + wsize, ok |-> e.block # NULL])


\* mm_init once mem_sbrk has returned start: the sentinels and the first chunk
InitWrite(h, start) ==
    Let1(extend_heap(Wr(Wr(h, start, pack(0, TRUE, TRUE, FALSE)),
                        start + wsize, pack(0, TRUE, TRUE, FALSE)),
                     chunksize),
         LAMBDA e : [h |-> e.h, hs |-> start + wsize, ok |-> e.block # NULL])

\* mutant: the list heads are not cleared
mm_init_KeepsLists(h, hs) ==
    Let1(mem_sbrk(h, 2 * wsize),
         LAMBDA r :
            IF r.bp = -1 THEN [h |-> r.h, hs |-> hs, ok |-> FALSE]
            ELSE InitWrite(r.h, r.bp))


mm_init(h, hs) ==
    Let1(mem_sbrk([h EXCEPT !.fl = [i \in 0..(SEG_LIST_NUM - 1) |-> NULL]], 2 * wsize),
         LAMBDA r :
            IF r.bp = -1 THEN [h |-> r.h, hs |-> hs, ok |-> FALSE]
            ELSE InitWrite(r.h, r.bp))

\* malloc once the block has been unlinked: mark allocated, fix the successor's
\* flags, split
PlaceMark(h, block, asize) ==
    LET block_size == get_size(h, block)
    IN  Let1(write_block(h, block, block_size, TRUE, get_prev_alloc(h, block),
                         get_prev_mini(h, block)),
             LAMBDA h2 :
                split_block(
                    update_block(h2, find_next(h2, block),
                                 get_size(h2, find_next(h2, block)),
                                 get_alloc(h2, find_next(h2, block)), TRUE,
                                 block_size = min_block_size),
                    block, asize))

\* mutant: the block found is not unlinked from its list
Place_NoUnlink(h, block, asize) ==
    PlaceMark(h, block, asize)

\* malloc once a block has been found: unlink, mark allocated, split
Place(h, block, asize) ==
    Let1(delete_normal_or_mini(h, block),
         LAMBDA h1 : PlaceMark(h1, block, asize))

\* mutant: the header word is not added to the request
AdjustedSize_NoHeader(size) ==
    IF ULe(size, wsize) THEN min_block_size ELSE round_up(size, dsize)

AdjustedSize(size) ==
    IF ULe(size, wsize) THEN min_block_size ELSE round_up(size + wsize, dsize)

\* mutant: the arena is extended by the adjusted size, however small
Allocate_ExtendByAsize(h, hs, asize) ==
    Let1(find_fit(h, asize),
         LAMBDA fit :
            Let1(IF fit = NULL THEN extend_heap(h, asize)
                 ELSE [h |-> h, block |-> fit],
                 LAMBDA e :
                    IF e.block = NULL THEN [h |-> e.h, hs |-> hs, bp |-> NULL]
                    ELSE [h  |-> Place(e.h, e.block, asize), hs |-> hs,
                          bp |-> header_to_payload(e.block)]))


\* malloc after the initialisation check, for a request of size > 0
Allocate(h, hs, asize) ==
    Let1(find_fit(h, asize),
         LAMBDA fit :
            Let1(IF fit = NULL THEN extend_heap(h, max(asize, chunksize))
                 ELSE [h |-> h, block |-> fit],
                 LAMBDA e :
                    IF e.block = NULL THEN [h |-> e.h, hs |-> hs, bp |-> NULL]
                    ELSE [h  |-> Place(e.h, e.block, asize), hs |-> hs,
                          bp |-> header_to_payload(e.block)]))

\* mutant: a request of size 0 is served like any other
malloc_NoZeroCheck(h, hs, size) ==
    Let1(IF hs = NULL THEN mm_init(h, hs) ELSE [h |-> h, hs |-> hs, ok |-> TRUE],
         LAMBDA i :
            IF ~i.ok THEN [h |-> i.h, hs |-> i.hs, bp |-> NULL]
            ELSE Allocate(i.h, i.hs, AdjustedSize(size)))

malloc(h, hs, size) ==
    Let1(IF hs = NULL THEN mm_init(h, hs) ELSE [h |-> h, hs |-> hs, ok |-> TRUE],
         LAMBDA i :
            IF ~i.ok THEN [h |-> i.h, hs |-> i.hs, bp |-> NULL]
            ELSE IF size = 0 THEN [h |-> i.h, hs |-> i.hs, bp |-> NULL]
            ELSE Allocate(i.h, i.hs, AdjustedSize(size)))

\* mutant: the successor's flags are not updated
free_NoFlagUpdate(h, bp) ==
    IF bp = NULL THEN h
    ELSE LET block == payload_to_header(bp)
         IN  coalesce_block(
                 write_block(h, block, get_size(h, block), FALSE,
                             get_prev_alloc(h, block), get_prev_mini(h, block)),
                 block).h

\* mutant: a null pointer is not told apart
free_NoNullCheck(h, bp) ==
    LET block == payload_to_header(bp)
        size  == get_size(h, block)
    IN  Let1(write_block(h, block, size, FALSE, get_prev_alloc(h, block),
                         get_prev_mini(h, block)),
             LAMBDA h1 :
                coalesce_block(
                    update_block(h1, find_next(h1, block),
                                 get_size(h1, find_next(h1, block)),
                                 get_alloc(h1, find_next(h1, block)), FALSE,
                                 size = min_block_size),
                    block).h)

free(h, bp) ==
    IF bp = NULL THEN h
    ELSE LET block == payload_to_header(bp)
             size  == get_size(h, block)
         IN  Let1(write_block(h, block, size, FALSE, get_prev_alloc(h, block),
                              get_prev_mini(h, block)),
                  LAMBDA h1 :
                     coalesce_block(
                         update_block(h1, find_next(h1, block),
                                      get_size(h1, find_next(h1, block)),
                                      get_alloc(h1, find_next(h1, block)), FALSE,
                                      size = min_block_size),
                         block).h)

\* mutant: the old block is freed before its payload is copied
Move_FreeFirst(m, ptr, size) ==
    LET payload  == get_payload_size(m.h, payload_to_header(ptr))
        copysize == IF ULt(size, payload) THEN size ELSE payload
    IN  [h |-> mem_memcpy(free(m.h, ptr), m.bp, ptr, copysize),
         hs |-> m.hs, bp |-> m.bp]

\* realloc once malloc has returned newptr in m: copy, free the old block
Move(m, ptr, size) ==
    LET payload  == get_payload_size(m.h, payload_to_header(ptr))
        copysize == IF ULt(size, payload) THEN size ELSE payload
    IN  [h |-> free(mem_memcpy(m.h, m.bp, ptr, copysize), ptr),
         hs |-> m.hs, bp |-> m.bp]

\* mutant: a null ptr is moved like any other
realloc_NoNullCase(h, hs, ptr, size) ==
    IF size = 0 THEN [h |-> free(h, ptr), hs |-> hs, bp |-> NULL]
    ELSE Let1(malloc(h, hs, size),
              LAMBDA m : IF m.bp = NULL THEN m ELSE Move(m, ptr, size))

\* mutant: size 0 falls through to malloc
realloc_NoZeroCase(h, hs, ptr, size) ==
    Let1(malloc(h, hs, size),
         LAMBDA m : IF ptr = NULL \/ m.bp = NULL THEN m
                    ELSE Move(m, ptr, size))

realloc(h, hs, ptr, size) ==
    IF size = 0 THEN [h |-> free(h, ptr), hs |-> hs, bp |-> NULL]
    ELSE Let1(malloc(h, hs, size),
              LAMBDA m : IF ptr = NULL \/ m.bp = NULL THEN m
                         ELSE Move(m, ptr, size))

\* the number of values of a size_t in calloc's product
WordRange == 2^WordBits

\* elements * size in size_t arithmetic, at the word width of the model
MulWord(a, b) == (a * b) % WordRange

\* the overflow test of calloc, for elements # 0
calloc_overflow(elements, size) == MulWord(elements, size) \div elements # size

\* mutant: the block is returned as malloc left it
calloc_NoMemset(h, hs, elements, size) ==
    IF elements = 0 THEN [h |-> h, hs |-> hs, bp |-> NULL]
    ELSE IF calloc_overflow(elements, size)
    THEN [h |-> h, hs |-> hs, bp |-> NULL]
    ELSE malloc(h, hs, MulWord(elements, size))

calloc(h, hs, elements, size) ==
    IF elements = 0 THEN [h |-> h, hs |-> hs, bp |-> NULL]
    ELSE IF calloc_overflow(elements, size)
    THEN [h |-> h, hs |-> hs, bp |-> NULL]
    ELSE Let1(malloc(h, hs, MulWord(elements, size)),
              LAMBDA m :
                 IF m.bp = NULL THEN m
                 ELSE [h |-> mem_memset_zero(m.h, m.bp, MulWord(elements, size)),
                       hs |-> m.hs, bp |-> m.bp])

(***************************************************************************)
(* The caller.                                                             *)
(***************************************************************************)
\* the arguments the caller uses
ReqSizes == {0, 8, 24, 2024}
ReallocSizes == {0, 24}
CallocCounts == {0, 2}
CallocSizes == {0, 4, WordRange \div 2}

Heap == [mem |-> mem, brk |-> brk, cap |-> cap, fl |-> segregated_free_list,
         fault |-> fault]

\* the heap variables hold heap h
SetHeapNow(h) ==
    /\ mem = h.mem
    /\ brk = h.brk
    /\ cap = h.cap
    /\ segregated_free_list = h.fl
    /\ fault = h.fault

SetHeap(h) ==
    /\ mem' = h.mem
    /\ brk' = h.brk
    /\ cap' = h.cap
    /\ segregated_free_list' = h.fl
    /\ fault' = h.fault

\* the record of a call: the pointer it returned, the block it freed and the
\* size that block had
Call(ret, freed, fsize) == [ret |-> ret, freed |-> freed, fsize |-> fsize]

FreedBlock(p) == IF p = NULL THEN NULL ELSE payload_to_header(p)
FreedSize(p) == IF p = NULL THEN 0 ELSE get_size(Heap, payload_to_header(p))

Init ==
    /\ mem = << >>
    /\ brk = 0
    /\ cap = MaxHeapBytes
    /\ segregated_free_list = [i \in 0..(SEG_LIST_NUM - 1) |-> NULL]
    /\ heap_start = NULL
    /\ fault = FALSE
    /\ live = {}
    /\ ncalls = 0
    /\ last = Call(NULL, NULL, 0)

Count ==
    /\ ncalls < MaxCalls
    /\ ncalls' = ncalls + 1

MmInit ==
    /\ Count
    /\ heap_start = NULL
    /\ \E r \in {mm_init(Heap, heap_start)} :
           /\ SetHeap(r.h)
           /\ heap_start' = r.hs
           /\ last' = Call(NULL, NULL, 0)
    /\ UNCHANGED live

Malloc ==
    /\ Count
    /\ Cardinality(live) < MaxLive
    /\ \E n \in ReqSizes :
         \E r \in {malloc(Heap, heap_start, n)} :
             /\ SetHeap(r.h)
             /\ heap_start' = r.hs
             /\ live' = IF r.bp = NULL THEN live ELSE live \cup {r.bp}
             /\ last' = Call(r.bp, NULL, 0)

Free ==
    /\ Count
    /\ heap_start # NULL
    /\ \E p \in live \cup {NULL} :
         /\ SetHeap(free(Heap, p))
         /\ live' = live \ {p}
         /\ last' = Call(NULL, FreedBlock(p), FreedSize(p))
    /\ UNCHANGED heap_start

Realloc ==
    /\ Count
    /\ heap_start # NULL
    /\ \E p \in live \cup {NULL}, n \in ReallocSizes :
         /\ p = NULL => Cardinality(live) < MaxLive
         /\ \E r \in {realloc(Heap, heap_start, p, n)} :
                /\ SetHeap(r.h)
                /\ heap_start' = r.hs
                /\ live' = IF n = 0 THEN live \ {p}
                           ELSE IF r.bp = NULL THEN live
                           ELSE (live \ {p}) \cup {r.bp}
                /\ last' = IF n # 0 /\ r.bp = NULL THEN Call(NULL, NULL, 0)
                           ELSE Call(r.bp, FreedBlock(p), FreedSize(p))

Calloc ==
    /\ Count
    /\ Cardinality(live) < MaxLive
    /\ \E k \in CallocCounts, s \in CallocSizes :
         \E r \in {calloc(Heap, heap_start, k, s)} :
             /\ SetHeap(r.h)
             /\ heap_start' = r.hs
             /\ live' = IF r.bp = NULL THEN live ELSE live \cup {r.bp}
             /\ last' = Call(r.bp, NULL, 0)

Next == MmInit \/ Malloc \/ Free \/ Realloc \/ Calloc

Spec == Init /\ [][Next]_vars

(***************************************************************************)
(* The caller on a crowded heap: the first chunk is cut into blocks of 32  *)
(* bytes and a last block that takes the rest; every second small block is *)
(* free, so that bucket 1 holds SEARCH_LIMIT + 1 blocks and no other       *)
(* bucket holds any.  The blocks left allocated are never freed.           *)
(***************************************************************************)
CrowdedFree == SEARCH_LIMIT + 1

\* k calls of malloc(24) from st, which keeps the pointers returned
RECURSIVE CrowdAlloc(_, _)
CrowdAlloc(st, k) ==
    IF k = 0 \/ st.h.fault THEN st
    ELSE Let1(malloc(st.h, st.hs, 3 * wsize),
              LAMBDA m : CrowdAlloc([h |-> m.h, hs |-> m.hs,
                                     ptrs |-> Append(st.ptrs, m.bp)], k - 1))

\* free of every second pointer of ptrs, from the k-th on
RECURSIVE CrowdFree(_, _, _)
CrowdFree(h, ptrs, k) ==
    IF k > Len(ptrs) \/ h.fault THEN h
    ELSE CrowdFree(free(h, ptrs[k]), ptrs, k + 2)

\* the whole script: the small blocks, one block for the rest of the chunk,
\* then the frees
CrowdedHeap ==
    Let1(CrowdAlloc([h |-> [mem |-> << >>, brk |-> 0, cap |-> MaxHeapBytes,
                            fl |-> [i \in 0..(SEG_LIST_NUM - 1) |-> NULL],
                            fault |-> FALSE],
                     hs |-> NULL, ptrs |-> << >>], 2 * CrowdedFree),
         LAMBDA st :
            Let1(malloc(st.h, st.hs, chunksize - 2 * CrowdedFree * 4 * wsize - wsize),
                 LAMBDA m : [h |-> CrowdFree(m.h, st.ptrs, 1), hs |-> m.hs]))

InitCrowded ==
    /\ SetHeapNow(CrowdedHeap.h)
    /\ heap_start = CrowdedHeap.hs
    /\ live = {}
    /\ ncalls = 0
    /\ last = Call(NULL, NULL, 0)

\* requests whose bucket is bucket 1 and that no block of 32 bytes serves
CrowdedSizes == {40, 56}

MallocCrowded ==
    /\ Count
    /\ Cardinality(live) < MaxLive
    /\ \E n \in CrowdedSizes :
         \E r \in {malloc(Heap, heap_start, n)} :
             /\ SetHeap(r.h)
             /\ heap_start' = r.hs
             /\ live' = IF r.bp = NULL THEN live ELSE live \cup {r.bp}
             /\ last' = Call(r.bp, NULL, 0)

NextCrowded == MallocCrowded \/ Malloc \/ Free \/ Realloc \/ Calloc

SpecCrowded == InitCrowded /\ [][NextCrowded]_vars


(***************************************************************************)
(* The caller on an arena too small for the first heap: its limit lies      *)
(* below the 16 + 2048 bytes mm_init asks for.                              *)
(***************************************************************************)
SmallCaps == {wsize * k : k \in 0..((2 * wsize + chunksize) \div wsize - 1)}

InitSmall ==
    /\ mem = << >>
    /\ brk = 0
    /\ cap \in SmallCaps
    /\ segregated_free_list = [i \in 0..(SEG_LIST_NUM - 1) |-> NULL]
    /\ heap_start = NULL
    /\ fault = FALSE
    /\ live = {}
    /\ ncalls = 0
    /\ last = Call(NULL, NULL, 0)

SpecSmallArena == InitSmall /\ [][Next]_vars


(***************************************************************************)
(* Views of a state: the physical blocks and the free lists.               *)
(***************************************************************************)
Inited == heap_start # NULL

\* a walk over at most fuel blocks from block b: the blocks met before a header
\* of size 0 (or the end of the arena)
RECURSIVE WalkFrom(_, _, _)
WalkFrom(h, b, fuel) ==
    IF fuel = 0 \/ ~InArena(h, b) \/ get_size(h, b) <= 0 THEN << >>
    ELSE <<b>> \o WalkFrom(h, find_next(h, b), fuel - 1)

MaxBlocks == brk \div min_block_size

\* the physical blocks, in address order
Blocks == WalkFrom(Heap, heap_start, MaxBlocks)
BlockSet == {Blocks[k] : k \in 1..Len(Blocks)}

\* where the walk over the blocks stops
WalkEnd == IF Blocks = << >> THEN heap_start
           ELSE find_next(Heap, Blocks[Len(Blocks)])

Size(b) == get_size(Heap, b)
IsAlloc(b) == get_alloc(Heap, b)
Prologue == mem_heap_lo
Epilogue == mem_heap_hi(Heap) - (wsize - 1)

\* the nodes of list i from node on, at most fuel of them
RECURSIVE ListFrom(_, _, _, _)
ListFrom(h, i, node, fuel) ==
    IF node = NULL \/ fuel = 0 THEN << >>
    ELSE <<node>> \o ListFrom(h, i,
                              Rd(h, IF i = 0 THEN MiniNextAt(node) ELSE FreeNextAt(node)),
                              fuel - 1)

FreeList(i) == ListFrom(Heap, i, segregated_free_list[i], MaxBlocks + 1)
\* list i ends with a null link
NullTerminated(i) == Len(FreeList(i)) <= MaxBlocks
Buckets == 0..(SEG_LIST_NUM - 1)
NoDup(seq) == \A j, k \in 1..Len(seq) : j # k => seq[j] # seq[k]
\* the buckets that hold block b
BucketsOf(b) == {i \in Buckets : \E k \in 1..Len(FreeList(i)) : FreeList(i)[k] = b}
Listed == UNION {{FreeList(i)[k] : k \in 1..Len(FreeList(i))} : i \in Buckets}

\* the byte at address a of heap h (little-endian words below 2^32)
ByteAt(h, a) ==
    IF a % wsize >= 4 THEN 0
    ELSE (Rd(h, a - (a % wsize)) \div Pow256(a % wsize)) % 256

\* the word addresses of the payload of block b of heap h
PayloadWords(h, b) == {b + wsize * j : j \in 1..((get_size(h, b) \div wsize) - 1)}

\* the bytes of the payload of the live allocation p
PayloadEnd(p) == payload_to_header(p) + Size(payload_to_header(p))


(***************************************************************************)
(* The checker on a damaged heap.  From the crowded heap, a caller's stray  *)
(* store (a programmer error) overwrites one boundary tag: the prologue,   *)
(* the epilogue, a header or a footer.  The values stored keep every size  *)
(* field or clear it, so that the checker's walks stay inside the arena.   *)
(***************************************************************************)
\* the addresses of the boundary tags
TagWords ==
    {Prologue, Epilogue} \cup BlockSet
        \cup {header_to_footer(Heap, b) :
                 b \in {x \in BlockSet : ~IsAlloc(x) /\ Size(x) > min_block_size}}

\* word w with its alloc bit or its prev_alloc bit inverted, and the zero word
StrayValues(w) ==
    {0,
     IF extract_alloc(w) THEN w - alloc_mask ELSE w + alloc_mask,
     IF extract_prev_alloc(w) THEN w - prev_alloc_mask ELSE w + prev_alloc_mask}

StrayStore ==
    /\ last = Call(NULL, NULL, 0)
    /\ \E a \in TagWords :
          \E v \in StrayValues(Rd(Heap, a)) \ {Rd(Heap, a)} :
              /\ SetHeap(Wr(Heap, a, v))
              /\ last' = [stray |-> a]
    /\ UNCHANGED <<heap_start, live, ncalls>>

CheckHeap ==
    /\ "consistent" \notin DOMAIN last
    /\ last' = [consistent |-> mm_checkheap(Heap, heap_start)]
    /\ UNCHANGED <<mem, brk, cap, segregated_free_list, heap_start, fault, live, ncalls>>

NextChecker == StrayStore \/ CheckHeap

SpecChecker == InitCrowded /\ [][NextChecker]_vars


(***************************************************************************)
(* get_list_index on its own: the initial state holds a block size, the    *)
(* one step computes its bucket.                                           *)
(***************************************************************************)
BlockSizes == {dsize * k : k \in 1..MaxSizeUnits}

InitBucket ==
    /\ mem = << >>
    /\ brk = 0
    /\ cap = MaxHeapBytes
    /\ segregated_free_list = [i \in 0..(SEG_LIST_NUM - 1) |-> NULL]
    /\ heap_start = NULL
    /\ fault = FALSE
    /\ live = {}
    /\ ncalls = 0
    /\ last \in {[size |-> s] : s \in BlockSizes}

GetListIndex ==
    /\ "index" \notin DOMAIN last
    /\ last' = [size |-> last.size, index |-> get_list_index(last.size)]
    /\ UNCHANGED <<mem, brk, cap, segregated_free_list, heap_start, fault, live, ncalls>>

NextBucket == GetListIndex

SpecBucket == InitBucket /\ [][NextBucket]_vars


(***************************************************************************)
(* The claims.                                                             *)
(***************************************************************************)

\* C1 (state part): the payload ranges [p, p + size - 8) of any two distinct
\* live allocations are disjoint.
LiveDisjoint ==
    \A p, q \in live : p # q => (PayloadEnd(p) <= q \/ PayloadEnd(q) <= p)

\* C1 (step part): a call never returns a pointer that lies inside a block the
\* caller still holds after the call.
ReturnsOutsideLive ==
    last'.ret # NULL =>
        \A q \in live :
            payload_to_header(q) # last'.freed =>
                ~(payload_to_header(q) <= last'.ret
                    /\ last'.ret < payload_to_header(q) + get_size(Heap', payload_to_header(q)))

\* C1: after any sequence of valid calls the payload byte ranges of any two
\* distinct live allocations are disjoint, and no call returns a pointer that
\* lies inside a block that is still allocated.
C1_LiveAllocationsDisjoint == [](LiveDisjoint) /\ [][ReturnsOutsideLive]_vars

C1_Witness ==
    /\ Cardinality(live) = MaxLive
    /\ \E p, q \in live : PayloadEnd(p) = payload_to_header(q)
    /\ \E k \in 1..Len(Blocks) : ~IsAlloc(Blocks[k])
    /\ last.ret \in live

\* C2: with a 16-byte aligned arena base, every non-null pointer returned by
\* allocate, reallocate or zeroed-allocate is a multiple of 16 and lies within
\* [lo + 8, hi - 8].
C2_ReturnedPointerAligned ==
    (mem_heap_lo % dsize = 0 /\ last.ret # NULL) =>
        /\ last.ret % dsize = 0
        /\ mem_heap_lo + 8 <= last.ret
        /\ last.ret <= mem_heap_hi(Heap) - 8

C2_Witness ==
    /\ mem_heap_lo % dsize = 0
    /\ last.ret # NULL
    /\ last.ret > mem_heap_lo + chunksize
    /\ Size(payload_to_header(last.ret)) = min_block_size

\* the flags of N describe its physical predecessor B
FlagsDescribe(N, B) ==
    /\ get_prev_alloc(Heap, N) = IsAlloc(B)
    /\ get_prev_mini(Heap, N) = (Size(B) = min_block_size)

\* C3: after every public operation, every block B with physical successor N
\* (a block or the epilogue) has N.prev_alloc = B.alloc and
\* N.prev_mini = (B.size = 16).
C3_FlagConsistency ==
    Inited => \A k \in 1..Len(Blocks) :
                 FlagsDescribe(find_next(Heap, Blocks[k]), Blocks[k])

C3_Witness ==
    /\ Inited
    /\ \E k \in 1..Len(Blocks) :
         /\ ~IsAlloc(Blocks[k]) /\ Size(Blocks[k]) = min_block_size
         /\ IsAlloc(find_next(Heap, Blocks[k]))
         /\ find_next(Heap, Blocks[k]) # Epilogue
    /\ \E k \in 1..Len(Blocks) :
         /\ IsAlloc(Blocks[k]) /\ Size(Blocks[k]) = min_block_size
         /\ ~IsAlloc(find_next(Heap, Blocks[k]))
    /\ last.freed # NULL

\* C4: after every public operation no two physically adjacent blocks are
\* both free.
C4_NoAdjacentFree ==
    Inited => \A k \in 1..(Len(Blocks) - 1) :
                 IsAlloc(Blocks[k]) \/ IsAlloc(Blocks[k + 1])

\* a free was merged with free blocks on both sides
C4_Witness ==
    /\ Inited
    /\ last.freed # NULL
    /\ \E k \in 1..Len(Blocks) :
         /\ ~IsAlloc(Blocks[k])
         /\ Blocks[k] < last.freed
         /\ last.freed + last.fsize < find_next(Heap, Blocks[k])

\* the bucket a free block of size s belongs on
BucketFor(s) == IF s = min_block_size THEN 0 ELSE get_list_index(s)

\* C5: after every public operation a block is linked on a free list iff its
\* alloc bit is 0, and every free block is linked exactly once, on bucket 0
\* iff its size is 16 and otherwise on bucket(size).
C5_ListMembership ==
    Inited =>
        /\ \A i \in Buckets : NullTerminated(i) /\ NoDup(FreeList(i))
        /\ Listed \subseteq BlockSet
        /\ \A b \in BlockSet :
             IF IsAlloc(b) THEN b \notin Listed
             ELSE BucketsOf(b) = {BucketFor(Size(b))}

C5_Witness ==
    /\ Inited
    /\ Len(FreeList(0)) >= 1
    /\ Len(FreeList(1)) >= 1
    /\ \E i \in 2..(SEG_LIST_NUM - 1) : Len(FreeList(i)) >= 1
    /\ \E b \in BlockSet : IsAlloc(b)

\* C6: after every public operation, the footer word of every free block of
\* size >= 32 equals its header word, flag bits included.
C6_FooterEqualsHeader ==
    Inited => \A b \in BlockSet :
                 (~IsAlloc(b) /\ Size(b) > min_block_size) =>
                     Rd(Heap, header_to_footer(Heap, b)) = Rd(Heap, b)

\* a free normal block behind an allocated mini block, made by a free
C6_Witness ==
    /\ Inited
    /\ last.freed # NULL
    /\ \E b \in BlockSet :
         /\ ~IsAlloc(b) /\ Size(b) > min_block_size
         /\ get_prev_mini(Heap, b)
         /\ b <= last.freed /\ last.freed < find_next(Heap, b)

\* C7: after every public operation each list of buckets 1..14 is a
\* well-formed doubly-linked list (the head's prev is null, x.next.prev = x,
\* no cycle) and the mini list is acyclic and null-terminated.
C7_ListIntegrity ==
    Inited =>
        /\ \A i \in Buckets : NullTerminated(i) /\ NoDup(FreeList(i))
        /\ \A i \in 1..(SEG_LIST_NUM - 1) :
             LET l == FreeList(i)
             IN  /\ l # << >> => Rd(Heap, FreePrevAt(l[1])) = NULL
                 /\ \A k \in 1..(Len(l) - 1) : Rd(Heap, FreePrevAt(l[k + 1])) = l[k]

\* a normal list of two entries beside another list that is not empty
C7_Witness ==
    /\ Inited
    /\ \E i \in 1..(SEG_LIST_NUM - 1) :
         /\ Len(FreeList(i)) >= 2
         /\ \E j \in Buckets \ {i} : Len(FreeList(j)) >= 1

RECURSIVE SumSizes(_)
SumSizes(seq) == IF seq = << >> THEN 0 ELSE Size(Head(seq)) + SumSizes(Tail(seq))

C9_PrologueEpilogue ==
    Inited =>
        /\ Rd(Heap, Prologue) = pack(0, TRUE, TRUE, FALSE)
        /\ get_size(Heap, Epilogue) = 0
        /\ get_alloc(Heap, Epilogue)
        /\ Blocks # << >>
        /\ find_next(Heap, Blocks[Len(Blocks)]) = Epilogue
        /\ FlagsDescribe(Epilogue, Blocks[Len(Blocks)])

\* the arena was extended and its last block is an allocated mini block
C9_Witness ==
    /\ Inited
    /\ mem_heapsize(Heap) > 2 * wsize + chunksize
    /\ get_prev_alloc(Heap, Epilogue)
    /\ get_prev_mini(Heap, Epilogue)

\* C10: after free(p) of a live block B of size s, the byte range of B lies
\* inside one free block of size >= s that is linked on a free list.
C10_FreedRangeIsFree ==
    last.freed # NULL =>
        \E b \in BlockSet :
            /\ ~IsAlloc(b)
            /\ b \in Listed
            /\ b <= last.freed
            /\ last.freed + last.fsize <= find_next(Heap, b)
            /\ Size(b) >= last.fsize

\* the freed block was merged with its predecessor only
C10_Witness ==
    /\ last.freed # NULL
    /\ \E b \in BlockSet :
         /\ ~IsAlloc(b) /\ b \in Listed
         /\ b < last.freed
         /\ last.freed + last.fsize = find_next(Heap, b)
         /\ find_next(Heap, b) # Epilogue

\* the program never writes outside the arena and its list walks end
NoFault == ~fault


\* the sizes reallocate is asked for: below, between and above the payloads
ReallocRequests == {12, 100}

\* the number of bytes reallocate(p, n) must preserve
Preserved(p, n) ==
    IF n < Size(payload_to_header(p)) - 8 THEN n ELSE Size(payload_to_header(p)) - 8

\* C11: for a live pointer p and n > 0, a successful reallocate(p, n) returns
\* a region whose first min(n, old block size - 8) bytes equal the bytes p
\* held before the call, and the allocate step inside reallocate alters
\* neither the old payload nor the old block's size.
C11_ReallocPreservesContent ==
    Inited =>
        \A p \in live, n \in ReallocRequests :
            LET r == realloc(Heap, heap_start, p, n)
                m == malloc(Heap, heap_start, n)
            IN  /\ r.bp # NULL =>
                     \A i \in 0..(Preserved(p, n) - 1) :
                         ByteAt(r.h, r.bp + i) = ByteAt(Heap, p + i)
                /\ m.bp # NULL =>
                     /\ get_size(m.h, payload_to_header(p)) = Size(payload_to_header(p))
                     /\ \A a \in PayloadWords(Heap, payload_to_header(p)) :
                           Rd(m.h, a) = Rd(Heap, a)

\* a live block holding a stale list link is moved to a place that held
\* other bytes, and the old block is merged into a free neighbour
C11_Witness ==
    /\ Inited
    /\ \E p \in live, n \in ReallocRequests :
         LET r == realloc(Heap, heap_start, p, n)
         IN  /\ r.bp # NULL
             /\ Rd(Heap, p) # FreshWord /\ Rd(Heap, p) # 0
             /\ Rd(Heap, r.bp) # Rd(Heap, p)
             /\ Size(payload_to_header(p)) - 8 > n
             /\ ~get_prev_alloc(Heap, payload_to_header(p))

\* the element counts and sizes zeroed-allocate is asked for
ZeroedCounts == {3, 4}
ZeroedSizes == {1, 16}

\* C12: a successful zeroed-allocate(k, s) returns a pointer whose first k*s
\* payload bytes are all zero, whatever the reused block held before.
C12_CallocZeroes ==
    \A k \in ZeroedCounts, s \in ZeroedSizes :
        LET r == calloc(Heap, heap_start, k, s)
        IN  r.bp # NULL => \A i \in 0..(k * s - 1) : ByteAt(r.h, r.bp + i) = 0

\* the block to be reused holds a stale list link in its first word and
\* other stale words behind it
C12_Witness ==
    /\ Inited
    /\ \E k \in ZeroedCounts, s \in ZeroedSizes :
         LET r == calloc(Heap, heap_start, k, s)
         IN  /\ r.bp # NULL
             /\ Rd(Heap, r.bp) \notin {0, FreshWord}
             /\ \E a \in WordsOf(r.bp + wsize, k * s - wsize) :
                   Rd(Heap, a) \notin {0, FreshWord}

\* operands of calloc's product around the points where it starts to wrap
ProductOperands ==
    {0, 1, 2, 3, 2^(WordBits \div 2) - 1, 2^(WordBits \div 2), 2^(WordBits \div 2) + 1,
     WordRange \div 3, WordRange \div 2 - 1, WordRange \div 2, WordRange \div 2 + 1,
     WordRange - 1}

\* the result of a call that returns null and leaves the heap as it was
NullUnchanged(r) == r = [h |-> Heap, hs |-> heap_start, bp |-> NULL]

\* C13: on an initialized heap allocate(0), zeroed-allocate(0, s),
\* zeroed-allocate(k, 0) for k > 0 and zeroed-allocate(k, s) with k*s beyond
\* the word range return null and leave the heap unchanged, and the test
\* (k*s mod 2^w) / k != s holds for exactly the pairs whose product overflows.
C13_SpuriousRequests ==
    /\ Inited =>
         /\ NullUnchanged(malloc(Heap, heap_start, 0))
         /\ \A s \in ProductOperands : NullUnchanged(calloc(Heap, heap_start, 0, s))
         /\ \A k \in ProductOperands \ {0} : NullUnchanged(calloc(Heap, heap_start, k, 0))
         /\ \A k, s \in ProductOperands :
               k * s >= WordRange => NullUnchanged(calloc(Heap, heap_start, k, s))
    /\ \A k \in ProductOperands \ {0}, s \in ProductOperands :
         calloc_overflow(k, s) <=> (k * s >= WordRange)

\* a spurious call has returned null on a heap that has live and free blocks
\* and room to grow
C13_Witness ==
    /\ Inited
    /\ last = Call(NULL, NULL, 0)
    /\ live # {}
    /\ Len(Blocks) >= 3
    /\ brk < MaxHeapBytes
    /\ \E k, s \in ProductOperands : k * s >= WordRange
    /\ \E k, s \in ProductOperands : k * s < WordRange /\ k * s > WordRange \div 2

\* the sizes asked for when the arena may be full
OomSizes == {8, 24, 2024, 5000}

\* allocate(n) finds no fit and the arena refuses the extension it asks for
Refused(n) ==
    /\ find_fit(Heap, AdjustedSize(n)) = NULL
    /\ mem_sbrk(Heap, round_up(max(AdjustedSize(n), chunksize), dsize)).bp = -1

\* C14: on an initialized heap, if the arena refuses the extension needed by
\* allocate(n), then allocate(n), reallocate(p, n) for a live p and
\* zeroed-allocate with product n return null and leave the arena bounds, every
\* word of the heap and every list head as they were.
C14_OutOfMemoryAtomic ==
    Inited =>
        \A n \in OomSizes :
            Refused(n) =>
                /\ NullUnchanged(malloc(Heap, heap_start, n))
                /\ \A p \in live : NullUnchanged(realloc(Heap, heap_start, p, n))
                /\ NullUnchanged(calloc(Heap, heap_start, 1, n))
                /\ NullUnchanged(calloc(Heap, heap_start, n \div 4, 4))

\* the arena is full, the caller holds blocks, and a call that needed an
\* extension has returned null
C14_Witness ==
    /\ Inited
    /\ brk + chunksize > cap
    /\ Cardinality(live) >= 2
    /\ last = Call(NULL, NULL, 0)
    /\ Listed # {}
    /\ \E n \in ReqSizes \ {0} : Refused(n)

\* C15: free(null) is a no-op: the arena bounds, every word of the heap and
\* every list head are unchanged by the call.
C15_FreeNullNoOp == free(Heap, NULL) = Heap

\* a call has returned null without freeing anything on a heap that has live
\* blocks and free blocks on a mini and on a normal list
C15_Witness ==
    /\ Inited
    /\ last = Call(NULL, NULL, 0)
    /\ live # {}
    /\ Len(FreeList(0)) >= 1
    /\ \E i \in 1..(SEG_LIST_NUM - 1) : Len(FreeList(i)) >= 1
    /\ free(Heap, NULL).brk = brk

\* the sizes reallocate(null, n) is compared with allocate(n) on
NullReallocSizes == {0, 8, 24, 100, 2024, 5000}

BlocksOf(h) == WalkFrom(h, heap_start, h.brk \div min_block_size)

\* the number of allocated blocks of heap h
AllocCount(h) ==
    Cardinality({k \in 1..Len(BlocksOf(h)) : get_alloc(h, BlocksOf(h)[k])})

\* in heap h the block at address block lies in a free block whose physical
\* neighbours are allocated
FreeAndCoalesced(h, block) ==
    \E k \in 1..Len(BlocksOf(h)) :
        LET b == BlocksOf(h)[k]
        IN  /\ ~get_alloc(h, b)
            /\ b <= block /\ block < find_next(h, b)
            /\ get_prev_alloc(h, b)
            /\ get_alloc(h, find_next(h, b))

\* C17: from any reachable state and for every live pointer p,
\* reallocate(p, 0) returns null and leaves the same heap state as free(p)
\* would: p's block is free and coalesced and nothing is newly allocated.
C17_ReallocZeroIsFree ==
    \A p \in live :
        LET r == realloc(Heap, heap_start, p, 0)
        IN  /\ r = [h |-> free(Heap, p), hs |-> heap_start, bp |-> NULL]
            /\ FreeAndCoalesced(r.h, payload_to_header(p))
            /\ AllocCount(r.h) = AllocCount(Heap) - 1
            /\ r.h.brk = brk

\* a live block lies between two free blocks, so that freeing it merges three
C17_Witness ==
    /\ Inited
    /\ \E p \in live :
         /\ ~get_prev_alloc(Heap, payload_to_header(p))
         /\ ~IsAlloc(find_next(Heap, payload_to_header(p)))
         /\ realloc(Heap, heap_start, p, 0).bp = NULL
         /\ Cardinality(live) >= 2

\* the sizes whose adjusted size is compared with the size of the block
ExactRequests == {1, 8, 9, 24, 25, 40, 2024, 2040}

\* the adjusted size as the specification gives it
ExactSize(n) == IF n <= 8 THEN 16 ELSE 16 * ((n + 8 + 15) \div 16)

\* the bytes free at block when allocate chose it: the free block there, or,
\* when the arena was extended to h, everything from block to the epilogue
ChosenSize(h, block) ==
    IF h.brk > brk THEN (mem_heap_hi(h) - (wsize - 1)) - block ELSE Size(block)

\* block b is linked on list i of heap h
OnList(h, i, b) ==
    \E k \in 1..Len(ListFrom(h, i, h.fl[i], h.brk \div min_block_size)) :
        ListFrom(h, i, h.fl[i], h.brk \div min_block_size)[k] = b

\* C18: for every n > 0 for which n + 8 does not overflow, a successful
\* allocate(n) returns a block of size exactly (n <= 8 ? 16 :
\* round_up(n + 8, 16)); when the chosen free block is larger, the whole
\* surplus is a free block right behind it, linked on its bucket.
C18_AllocatedSizeExact ==
    Inited =>
        \A n \in ExactRequests :
            LET r     == malloc(Heap, heap_start, n)
                block == payload_to_header(r.bp)
                rest  == block + ExactSize(n)
            IN  r.bp # NULL =>
                    /\ get_alloc(r.h, block)
                    /\ get_size(r.h, block) = ExactSize(n)
                    /\ ChosenSize(r.h, block) >= ExactSize(n)
                    /\ ChosenSize(r.h, block) > ExactSize(n) =>
                         /\ ~get_alloc(r.h, rest)
                         /\ get_size(r.h, rest) = ChosenSize(r.h, block) - ExactSize(n)
                         /\ OnList(r.h, BucketFor(get_size(r.h, rest)), rest)

\* from one state, requests are served with no surplus, with a surplus of one
\* mini block and with a larger surplus, one of them by extending the arena
C18_Witness ==
    /\ Inited
    /\ last.ret \in live
    /\ \E n \in ExactRequests :
         /\ malloc(Heap, heap_start, n).bp # NULL
         /\ ChosenSize(malloc(Heap, heap_start, n).h,
                       payload_to_header(malloc(Heap, heap_start, n).bp)) = ExactSize(n)
    /\ \E n \in ExactRequests :
         /\ malloc(Heap, heap_start, n).bp # NULL
         /\ ChosenSize(malloc(Heap, heap_start, n).h,
                       payload_to_header(malloc(Heap, heap_start, n).bp))
               = ExactSize(n) + min_block_size
    /\ \E n \in ExactRequests :
         /\ malloc(Heap, heap_start, n).bp # NULL
         /\ malloc(Heap, heap_start, n).h.brk > brk
         /\ ChosenSize(malloc(Heap, heap_start, n).h,
                       payload_to_header(malloc(Heap, heap_start, n).bp))
               > ExactSize(n) + min_block_size

\* the heap holds the one free block mm_init made and nothing else
FreshlyInitialized ==
    /\ Inited
    /\ live = {}
    /\ brk = 2 * wsize + chunksize
    /\ Blocks = <<heap_start>>
    /\ ~IsAlloc(heap_start)

\* the calls a = allocate(40), b = allocate(40), free(a), allocate(32) made
\* from the present state
HoleA == malloc(Heap, heap_start, 40)
HoleB == malloc(HoleA.h, HoleA.hs, 40)
HoleFreed == free(HoleB.h, HoleA.bp)
HoleReuse == malloc(HoleFreed, HoleB.hs, 32)

\* the last call of the scenario is placed in the hole left by a
PlacedInHole ==
    /\ HoleA.bp # NULL /\ HoleB.bp # NULL
    /\ HoleB.bp = HoleA.bp + 48
    /\ get_size(HoleFreed, payload_to_header(HoleA.bp)) = 48
    /\ ~get_alloc(HoleFreed, payload_to_header(HoleA.bp))
    /\ HoleReuse.bp = HoleA.bp

\* C19 as stated: the allocation is placed in the 48-byte hole and a 16-byte
\* free remnant of the hole is on bucket 0 afterwards.
C19_RemnantOnBucketZero ==
    FreshlyInitialized =>
        /\ PlacedInHole
        /\ HoleReuse.h.fl[0] # NULL
        /\ get_size(HoleReuse.h, HoleReuse.h.fl[0]) = min_block_size
        /\ payload_to_header(HoleA.bp) < HoleReuse.h.fl[0]
        /\ HoleReuse.h.fl[0] < payload_to_header(HoleB.bp)

\* C19 (amended): from a freshly initialized heap, after a = allocate(40),
\* b = allocate(40), free(a), the call allocate(32) is placed in the 48-byte
\* hole left by a, not in the tail free block, and takes the hole whole
\* (its adjusted size is 48): b's block follows it directly, no remnant is
\* split off and bucket 0 is empty afterwards.
C19_HoleReusedWhole ==
    FreshlyInitialized =>
        /\ PlacedInHole
        /\ get_size(HoleReuse.h, payload_to_header(HoleReuse.bp)) = 48
        /\ find_next(HoleReuse.h, payload_to_header(HoleReuse.bp))
              = payload_to_header(HoleB.bp)
        /\ HoleReuse.h.fl[0] = NULL
        /\ HoleReuse.h.brk = brk

\* a freshly initialized heap from which the scenario runs: the hole is on
\* bucket 1 and the tail on another bucket when the last call is made
C19_Witness ==
    /\ FreshlyInitialized
    /\ HoleReuse.bp # NULL
    /\ HoleFreed.fl[1] = payload_to_header(HoleA.bp)
    /\ \E i \in 2..(SEG_LIST_NUM - 1) : HoleFreed.fl[i] > payload_to_header(HoleB.bp)

\* the sizes asked for, freed and asked for again
RoundTripSizes == {17, 24, 40, 56, 2024}

\* P of the results of allocate(n), of the free of its result and of the
\* allocate(n) after it, made from the present state, when the first succeeds
RoundTrip(n, P(_, _, _)) ==
    \E m1 \in {malloc(Heap, heap_start, n)} :
        /\ m1.bp # NULL
        /\ \E h2 \in {free(m1.h, m1.bp)} :
              \E m2 \in {malloc(h2, m1.hs, n)} : P(m1, h2, m2)

\* C20: for any reachable heap state and any n > 0, if allocate(n) succeeds
\* and its result is freed at once, a following allocate(n) succeeds without
\* extending the arena, however many other free blocks the lists hold.
C20_ReuseWithoutExtension ==
    \A n \in RoundTripSizes :
        ~RoundTrip(n, LAMBDA m1, h2, m2 : m2.bp = NULL \/ m2.h.brk # h2.brk)

\* bucket 1 holds more blocks than the search limit and none of them serves
\* the request; the first allocate extends the arena, and the second finds
\* the freed block behind the blocks it has passed over
C20_Witness ==
    /\ Len(FreeList(1)) > SEARCH_LIMIT
    /\ \E n \in RoundTripSizes :
         /\ get_list_index(ExactSize(n)) = 1
         /\ \A k \in 1..Len(FreeList(1)) : Size(FreeList(1)[k]) < ExactSize(n)
         /\ RoundTrip(n, LAMBDA m1, h2, m2 : m1.h.brk > brk /\ m2.bp = m1.bp)
    /\ last.freed # NULL

\* the sizes asked for and freed at once
RestoreSizes == {1, 8, 24, 40, 2024, 2040}

\* the physical layout of heap h: the start and the header word of every
\* block, in address order, and the word that ends the walk
Layout(h) ==
    LET bs == BlocksOf(h)
    IN  [blocks |-> [k \in 1..Len(bs) |-> <<bs[k], Rd(h, bs[k])>>],
         end    |-> Rd(h, IF bs = << >> THEN heap_start
                          ELSE find_next(h, bs[Len(bs)]))]

\* the entries of every free list of heap h, without their order
ListEntries(h) ==
    [i \in Buckets |->
        LET l == ListFrom(h, i, h.fl[i], (h.brk \div min_block_size) + 1)
        IN  {l[k] : k \in 1..Len(l)}]

\* C21: from any reachable state in which allocate(n) is served without
\* extending the arena, allocate(n) followed by free of its result restores
\* the physical block sequence: every block's start, size and allocation bit
\* and every successor's prev_alloc / prev_mini flags are as before, and so
\* are the entries of every free list, whose order alone may differ.  From a
\* fresh heap this leaves one free block of 2048 bytes.
C21_AllocateFreeRestores ==
    Inited =>
        \A n \in RestoreSizes :
            \A m1 \in {malloc(Heap, heap_start, n)} :
                (m1.bp # NULL /\ m1.h.brk = brk) =>
                    \A h2 \in {free(m1.h, m1.bp)} :
                        /\ Layout(h2) = Layout(Heap)
                        /\ ListEntries(h2) = ListEntries(Heap)
                        /\ ~h2.fault
                        /\ FreshlyInitialized =>
                              /\ BlocksOf(h2) = <<heap_start>>
                              /\ Rd(h2, heap_start) = pack(chunksize, FALSE, TRUE, FALSE)

\* the caller holds blocks, and an allocation that splits a free block which
\* is not the head of its list is freed again: the block is whole again and
\* now heads its list
C21_Witness ==
    /\ Inited
    /\ live # {}
    /\ last.freed # NULL
    /\ \E n \in RestoreSizes :
         \E m1 \in {malloc(Heap, heap_start, n)} :
            /\ m1.bp # NULL /\ m1.h.brk = brk
            /\ Size(payload_to_header(m1.bp)) > get_size(m1.h, payload_to_header(m1.bp))
            /\ segregated_free_list[get_list_index(Size(payload_to_header(m1.bp)))]
                  # payload_to_header(m1.bp)
            /\ free(m1.h, m1.bp).fl[get_list_index(Size(payload_to_header(m1.bp)))]
                  = payload_to_header(m1.bp)

\* the block that ends where block b starts, NULL for the first block
PhysicalPrev(b) ==
    IF \E k \in 2..Len(Blocks) : Blocks[k] = b
    THEN Blocks[(CHOOSE k \in 2..Len(Blocks) : Blocks[k] = b) - 1]
    ELSE NULL

\* the free physical neighbours of block b
FreeBefore(b) == IF PhysicalPrev(b) # NULL /\ ~IsAlloc(PhysicalPrev(b))
                 THEN {PhysicalPrev(b)} ELSE {}
FreeAfter(b) == IF ~IsAlloc(find_next(Heap, b)) THEN {find_next(Heap, b)} ELSE {}

\* the sum of the sizes of the blocks of set S
RECURSIVE SizeOfAll(_)
SizeOfAll(S) ==
    IF S = {} THEN 0
    ELSE LET b == CHOOSE x \in S : TRUE IN Size(b) + SizeOfAll(S \ {b})

\* the blocks on the free lists of heap h
ListedIn(h) == UNION {ListEntries(h)[i] : i \in Buckets}

\* heap h2 is the present heap with block B and its free neighbours made one
\* free block, the only block put on a list
MergedInto(h2, B) ==
    LET first == IF FreeBefore(B) = {} THEN B ELSE PhysicalPrev(B)
        size  == Size(B) + SizeOfAll(FreeBefore(B) \cup FreeAfter(B))
    IN  /\ ~h2.fault
        /\ Rd(h2, first) = pack(size, FALSE, get_prev_alloc(Heap, first),
                                get_prev_mini(Heap, first))
        /\ BlocksOf(h2) = SelectSeq(Blocks, LAMBDA b : b \notin ({B} \cup FreeAfter(B))
                                                       \/ b = first)
        /\ ListedIn(h2) = (Listed \ (FreeBefore(B) \cup FreeAfter(B))) \cup {first}
        /\ ListEntries(h2)[get_list_index(size)]
              = (ListEntries(Heap)[get_list_index(size)]
                    \ (FreeBefore(B) \cup FreeAfter(B))) \cup {first}

\* the scenario: three allocations of 24 bytes from the present heap, then
\* free of the middle one, of the first and of the third
Three1 == malloc(Heap, heap_start, 24)
Three2 == malloc(Three1.h, Three1.hs, 24)
Three3 == malloc(Three2.h, Three2.hs, 24)
ThreeFreeMiddle == free(Three3.h, Three2.bp)
ThreeFreeFirst == free(ThreeFreeMiddle, Three1.bp)
ThreeFreeThird == free(ThreeFreeFirst, Three3.bp)

ThreeScenario ==
    /\ Three1.bp = header_to_payload(heap_start)
    /\ Three2.bp = Three1.bp + 32
    /\ Three3.bp = Three2.bp + 32
    /\ Rd(ThreeFreeMiddle, payload_to_header(Three2.bp)) = pack(32, FALSE, TRUE, FALSE)
    /\ ListedIn(ThreeFreeMiddle)
          = {payload_to_header(Three2.bp), find_next(Three3.h, payload_to_header(Three3.bp))}
    /\ Rd(ThreeFreeFirst, heap_start) = pack(64, FALSE, TRUE, FALSE)
    /\ ListedIn(ThreeFreeFirst)
          = {heap_start, find_next(Three3.h, payload_to_header(Three3.bp))}
    /\ Rd(ThreeFreeThird, heap_start) = pack(chunksize, FALSE, TRUE, FALSE)
    /\ WalkFrom(ThreeFreeThird, heap_start, MaxBlocks) = <<heap_start>>
    /\ ListedIn(ThreeFreeThird) = {heap_start}

\* C22: free(p) of a block B with physical neighbours P and N produces exactly
\* one free block covering B and each free neighbour: it starts at P if P is
\* free and at B otherwise, its size is B's plus the free neighbours', it
\* keeps the prev_alloc / prev_mini flags of its first constituent, every
\* absorbed neighbour leaves its free list and only the merged block is
\* inserted.  With three 32-byte allocations on a fresh heap, freeing the
\* middle one gives a free block of 32, freeing the first one of 64, and
\* freeing the third merges everything with the tail.
C22_FreeMergesNeighbours ==
    /\ \A p \in live :
          \A h2 \in {free(Heap, p)} : MergedInto(h2, payload_to_header(p))
    /\ FreshlyInitialized => ThreeScenario

\* a block has been freed, and the caller holds a block between two free
\* blocks
C22_Witness ==
    /\ last.freed # NULL
    /\ \E p \in live :
          /\ FreeBefore(payload_to_header(p)) # {}
          /\ FreeAfter(payload_to_header(p)) # {}
          /\ free(Heap, p).fl # segregated_free_list

\* the sizes asked for when the arena may have to grow
ExtendSizes == {8, 24, 2024, 2040, 3000, 5000}

\* the last physical block if it is free, NULL otherwise
LastFree ==
    IF Blocks # << >> /\ ~IsAlloc(Blocks[Len(Blocks)]) THEN Blocks[Len(Blocks)]
    ELSE NULL

\* heap h is the present heap grown by ext bytes for a block of asize bytes:
\* the old epilogue word heads the grown region, which is merged with the last
\* block if that was free; the block placed starts the merged region, the
\* leftover follows it as one free block, and the epilogue ends the arena
GrownAndPlaced(h, bp, asize, ext) ==
    LET region == IF LastFree # NULL THEN LastFree ELSE Epilogue
        total  == ext + (IF LastFree # NULL THEN Size(LastFree) ELSE 0)
        rest   == region + asize
        end    == mem_heap_hi(h) - (wsize - 1)
    IN  /\ h.brk = brk + ext
        /\ end = Epilogue + ext
        /\ bp = header_to_payload(region)
        /\ get_alloc(h, region)
        /\ IF total - asize >= min_block_size
           THEN /\ get_size(h, region) = asize
                /\ Rd(h, rest) = pack(total - asize, FALSE, TRUE, asize = min_block_size)
                /\ find_next(h, rest) = end
                /\ Rd(h, end) = pack(0, TRUE, FALSE, total - asize = min_block_size)
           ELSE /\ get_size(h, region) = total
                /\ find_next(h, region) = end
                /\ Rd(h, end) = pack(0, TRUE, TRUE, total = min_block_size)

\* C23: allocate(n) extends the arena only when find_fit returns no block, and
\* then at most once and by exactly max(asize, 2048) bytes; the old epilogue
\* word becomes the header of a free block covering the grown region and a new
\* epilogue is written at the new end; if the last block before the extension
\* was free it is merged with the new region before placement, so that a
\* request larger than a chunk on a fresh 2048-byte heap ends with the
\* allocated block followed by one free block of the leftover.
C23_ExtendOnlyWithoutFit ==
    Inited =>
        \A n \in ExtendSizes :
            \A m \in {malloc(Heap, heap_start, n)} :
                /\ find_fit(Heap, AdjustedSize(n)) # NULL => m.h.brk = brk
                /\ m.bp = NULL => m.h.brk = brk
                /\ (find_fit(Heap, AdjustedSize(n)) = NULL /\ m.bp # NULL) =>
                      GrownAndPlaced(m.h, m.bp, AdjustedSize(n),
                                     max(AdjustedSize(n), chunksize))
                /\ (FreshlyInitialized /\ n = 3000) =>
                      /\ BlocksOf(m.h) = <<heap_start, heap_start + 3008>>
                      /\ Rd(m.h, heap_start) = pack(3008, TRUE, TRUE, FALSE)
                      /\ Rd(m.h, heap_start + 3008) = pack(chunksize, FALSE, TRUE, FALSE)

\* the caller holds a block, the last block is free and too small for a
\* request larger than a chunk, which the arena has room for
C23_Witness ==
    /\ Inited
    /\ live # {}
    /\ LastFree # NULL
    /\ \E n \in ExtendSizes :
          /\ AdjustedSize(n) > chunksize
          /\ find_fit(Heap, AdjustedSize(n)) = NULL
          /\ malloc(Heap, heap_start, n).bp = header_to_payload(LastFree)

\* heap h with heap start hs is what a successful mm_init leaves on an empty
\* arena
InitialShape(h, hs) ==
    /\ ~h.fault
    /\ h.brk = 2 * wsize + chunksize
    /\ hs = mem_heap_lo + wsize
    /\ WalkFrom(h, hs, h.brk \div min_block_size) = <<hs>>
    /\ Rd(h, hs) = pack(chunksize, FALSE, TRUE, FALSE)
    /\ \A i \in Buckets : ListEntries(h)[i] = IF i = 6 THEN {hs} ELSE {}
    /\ \A i \in Buckets \ {6} : h.fl[i] = NULL
    /\ Rd(h, mem_heap_lo) = pack(0, TRUE, TRUE, FALSE)
    /\ Rd(h, mem_heap_hi(h) - (wsize - 1)) = pack(0, TRUE, FALSE, FALSE)

\* C24: after a successful init on an empty arena the arena has 16 + 2048
\* bytes; there is exactly one physical block, free, of size 2048, with
\* prev_alloc = 1 and prev_mini = 0; it is the only entry of bucket 6 and all
\* other list heads are empty; the prologue word is pack(0, 1, 1, 0) and the
\* epilogue word is pack(0, 1, 0, 0).
C24_InitPostcondition ==
    /\ (heap_start = NULL /\ brk = 0) =>
          \A r \in {mm_init(Heap, heap_start)} : r.ok => InitialShape(r.h, r.hs)
    /\ (Inited /\ ncalls = 1 /\ live = {}) => InitialShape(Heap, heap_start)

\* the first call has initialized the heap
C24_Witness ==
    /\ Inited
    /\ ncalls = 1
    /\ live = {}
    /\ segregated_free_list[6] = heap_start

\* the heap is as one successful init has left it, and nothing was called since
DirectlyAfterInit ==
    /\ Inited
    /\ ncalls = 1
    /\ InitialShape(Heap, heap_start)

\* C25 as stated: init is idempotent on success: a second init directly after
\* a successful init leaves the same arena extent, the same heap start, one
\* free 2048-byte block and the same list heads.
C25_InitIdempotent ==
    DirectlyAfterInit =>
        \A r \in {mm_init(Heap, heap_start)} :
            /\ r.ok
            /\ r.h.brk = brk
            /\ r.hs = heap_start
            /\ r.h.fl = segregated_free_list
            /\ WalkFrom(r.h, r.hs, r.h.brk \div min_block_size) = <<r.hs>>
            /\ Rd(r.h, r.hs) = pack(chunksize, FALSE, TRUE, FALSE)

\* C25 (amended): a second init directly after a successful init, when the
\* arena grants its two requests, builds a second heap behind the first: the
\* arena grows by another 16 + 2048 bytes, the heap start moves up by 2064
\* bytes to the new sentinels, the list heads are cleared and then hold the
\* new free 2048-byte block as the only entry of bucket 6, and the words of
\* the first heap stay as they were.
C25_SecondInitBuildsAnew ==
    DirectlyAfterInit =>
        \A r \in {mm_init(Heap, heap_start)} :
            r.ok =>
                /\ ~r.h.fault
                /\ r.h.brk = brk + 2 * wsize + chunksize
                /\ r.hs = heap_start + 2 * wsize + chunksize
                /\ WalkFrom(r.h, r.hs, r.h.brk \div min_block_size) = <<r.hs>>
                /\ Rd(r.h, r.hs) = pack(chunksize, FALSE, TRUE, FALSE)
                /\ \A i \in Buckets : ListEntries(r.h)[i] = IF i = 6 THEN {r.hs} ELSE {}
                /\ Rd(r.h, r.hs - wsize) = pack(0, TRUE, TRUE, FALSE)
                /\ Rd(r.h, mem_heap_hi(r.h) - (wsize - 1)) = pack(0, TRUE, FALSE, FALSE)
                /\ \A a \in DOMAIN mem : Rd(r.h, a) = mem[a]
                /\ \A a \in DOMAIN r.h.mem : a < HeapLo + brk => a \in DOMAIN mem

\* init has just succeeded and the arena has room for a second heap
C25_Witness ==
    /\ DirectlyAfterInit
    /\ last = Call(NULL, NULL, 0)
    /\ mm_init(Heap, heap_start).ok
    /\ mm_init(Heap, heap_start).h.brk > brk

\* C26: if the arena refuses either of init's two requests (the 16 sentinel
\* bytes or the 2048-byte seed), init reports failure and no partial mutation
\* is visible: the arena extent, the heap start pointer and the list heads are
\* as before.
C26_InitFailureAtomic ==
    (heap_start = NULL /\ brk = 0) =>
        \A r \in {mm_init(Heap, heap_start)} :
            (mem_sbrk(Heap, 2 * wsize).bp = -1
                \/ mem_sbrk(mem_sbrk(Heap, 2 * wsize).h, chunksize).bp = -1) =>
                   /\ ~r.ok
                   /\ r.h.brk = brk
                   /\ r.hs = heap_start
                   /\ r.h.fl = segregated_free_list

\* C27: check_heap returns true only if every sub-check passes (prologue,
\* epilogue, bounds, size alignment, header/footer match, minimum size,
\* adjacent free blocks, and per list: cycle, allocated entry, bounds,
\* next/prev consistency, bucket range); if any sub-check fails, the result
\* is false.
C27_CheckerReportsEveryFailure ==
    ("consistent" \in DOMAIN last /\ last.consistent) =>
        \A r \in {SubChecks(Heap, heap_start)} : \A k \in 1..Len(r) : r[k]

\* C28: for every block size s (a multiple of 16, at least 16): bucket(s) = 0
\* iff s = 16; bucket(s) = 1 iff 32 <= s <= 64; for i in 2..13, bucket(s) = i
\* iff 2^(i+4) < s <= 2^(i+5); bucket(s) = 14 iff s > 262144.
C28_BucketThresholds ==
    "index" \in DOMAIN last =>
        /\ last.index = 0 <=> last.size = 16
        /\ last.index = 1 <=> (32 <= last.size /\ last.size <= 64)
        /\ \A i \in 2..13 :
              last.index = i <=> (2^(i + 4) < last.size /\ last.size <= 2^(i + 5))
        /\ last.index = 14 <=> last.size > 262144

\* the bucket of the first size above the last threshold has been computed
C28_Witness ==
    /\ "index" \in DOMAIN last
    /\ last.size = s_list_13 + dsize
    /\ last.index = SEG_LIST_NUM - 1

\* the sizes asked for when find_fit is looked at
ScanSizes == {8, 24, 40, 56, 88, 1000, 2024}

\* the number of blocks of bucket i among the blocks seen
ExaminedIn(seen, i) == Cardinality({k \in 1..Len(seen) : seen[k][1] = i})

\* the search find_fit would make if it started at bucket i
FitSearchFrom(h, asize, i) ==
    FitScan(h, asize, i, h.fl[i], 0, SIZE_MAX, NULL, << >>)

\* C29: in find_fit, for each bucket i independently, at most
\* SEARCH_LIMIT = 10 entries of that bucket are examined before the search
\* moves on to bucket i+1; the number examined in one bucket does not depend
\* on how many were examined in earlier buckets.
C29_SearchLimitPerBucket ==
    Inited =>
        \A n \in ScanSizes :
            \A s \in {FitSearch(Heap, AdjustedSize(n)).seen} :
                \A i \in Buckets :
                    /\ ExaminedIn(s, i) <= SEARCH_LIMIT
                    /\ ExaminedIn(s, i) > 0 =>
                          ExaminedIn(s, i)
                             = ExaminedIn(FitSearchFrom(Heap, AdjustedSize(n), i).seen, i)

\* the positions in seen of the blocks of at least asize bytes
Fitting(h, seen, asize) ==
    {k \in 1..Len(seen) : ULe(asize, get_size(h, seen[k][2]))}

\* the fitting block of seen with the smallest surplus, the earliest of them
BestOf(h, seen, asize) ==
    IF Fitting(h, seen, asize) = {} THEN NULL
    ELSE seen[CHOOSE k \in Fitting(h, seen, asize) :
                 \A j \in Fitting(h, seen, asize) :
                    \/ get_size(h, seen[k][2]) < get_size(h, seen[j][2])
                    \/ get_size(h, seen[k][2]) = get_size(h, seen[j][2]) /\ k <= j][2]

\* the blocks on the lists of the buckets from seg on
ListedFrom(seg) == UNION {ListEntries(Heap)[i] : i \in seg..(SEG_LIST_NUM - 1)}

\* find_fit(asize) takes the head of the mini list without a search
TakesMiniHead(asize) ==
    get_list_index(asize) = 0 /\ segregated_free_list[0] # NULL

\* C30: find_fit(asize) returns null or a free, listed block of size >= asize
\* from a bucket >= bucket(asize); it returns as soon as an examined block
\* brings the running minimum surplus to <= CLOSE_ENOUGH = 46 bytes, and
\* otherwise the examined fitting block with the smallest surplus carried
\* across buckets (the earliest on ties); it returns null only if no examined
\* block fits.  (While no block is close enough the search goes on: it
\* examines every listed block from bucket(asize) on when these are no more
\* than SEARCH_LIMIT.)
C30_FindFitResult ==
    Inited =>
        \A n \in ScanSizes :
            \A asize \in {AdjustedSize(n)} :
                \A res \in {find_fit(Heap, asize)} :
                    /\ res # NULL =>
                          /\ ~IsAlloc(res)
                          /\ Size(res) >= asize
                          /\ \E i \in Buckets :
                                /\ i >= get_list_index(asize)
                                /\ res \in ListEntries(Heap)[i]
                    /\ TakesMiniHead(asize) => res = segregated_free_list[0]
                    /\ ~TakesMiniHead(asize) =>
                          \A s \in {FitSearch(Heap, asize).seen} :
                              /\ res = BestOf(Heap, s, asize)
                              /\ res = NULL <=> Fitting(Heap, s, asize) = {}
                              /\ \A k \in Fitting(Heap, s, asize) :
                                    Size(s[k][2]) - asize <= CLOSE_ENOUGH => k = Len(s)
                              /\ \A k \in 1..Len(s) :
                                    /\ s[k][1] >= get_list_index(asize)
                                    /\ s[k][2] \in ListEntries(Heap)[s[k][1]]
                              /\ (/\ \A k \in Fitting(Heap, s, asize) :
                                        Size(s[k][2]) - asize > CLOSE_ENOUGH
                                  /\ Cardinality(ListedFrom(get_list_index(asize)))
                                        <= SEARCH_LIMIT) =>
                                    {s[k][2] : k \in 1..Len(s)}
                                       = ListedFrom(get_list_index(asize))

\* a block has been freed, and a search examines two blocks that fit, neither
\* close enough, and returns the second, whose surplus is smaller
C30_Witness ==
    /\ Inited
    /\ last.freed # NULL
    /\ \E n \in ScanSizes :
          \E s \in {FitSearch(Heap, AdjustedSize(n)).seen} :
              /\ ~TakesMiniHead(AdjustedSize(n))
              /\ Cardinality(Fitting(Heap, s, AdjustedSize(n))) >= 2
              /\ \E k \in Fitting(Heap, s, AdjustedSize(n)) :
                    /\ \E j \in Fitting(Heap, s, AdjustedSize(n)) : j < k
                    /\ find_fit(Heap, AdjustedSize(n)) = s[k][2]

\* the sizes asked for when the remainder of a split is looked at
SplitSizes == {8, 24, 40, 56, 1992, 2024}

\* in heap h2 block b heads the list of its size, followed by the entries the
\* list had in the present heap, in their order, without b and the blocks gone
PushedOn(h2, b, gone) ==
    \E i \in {get_list_index(get_size(h2, b))} :
        \E old \in {FreeList(i)} :
            ListFrom(h2, i, h2.fl[i], (h2.brk \div min_block_size) + 1)
               = <<b>> \o SelectSeq(old, LAMBDA x : x \notin gone /\ x # b)

\* the free block that free(p) leaves where p's block was
MergedBlock(p) ==
    IF FreeBefore(payload_to_header(p)) = {} THEN payload_to_header(p)
    ELSE PhysicalPrev(payload_to_header(p))

\* the free neighbours that free(p) absorbs
Absorbed(p) ==
    FreeBefore(payload_to_header(p)) \cup FreeAfter(payload_to_header(p))

\* malloc has returned m.bp from a block it split
SplitDone(m, n) ==
    /\ m.bp # NULL
    /\ get_size(m.h, payload_to_header(m.bp)) = AdjustedSize(n)
    /\ ~get_alloc(m.h, find_next(m.h, payload_to_header(m.bp)))

\* C31: every free-list insertion is a push at the head: right after free(p)
\* returns, the (possibly merged) free block containing p's block is the head
\* of the bucket of its size, and the entries that were on that list before
\* follow it in their previous order; the same holds for the remainder
\* inserted by a split.
C31_InsertionIsPush ==
    /\ \A p \in live :
          \E h2 \in {free(Heap, p)}, b \in {MergedBlock(p)}, gone \in {Absorbed(p)} :
              PushedOn(h2, b, gone)
    /\ Inited =>
          \A n \in SplitSizes :
              \E m \in {malloc(Heap, heap_start, n)} :
                  SplitDone(m, n) =>
                      \E b \in {find_next(m.h, payload_to_header(m.bp))},
                         gone \in {{payload_to_header(m.bp)}} :
                          PushedOn(m.h, b, gone)

\* the number of entries of the list that block b heads in heap h2, 0 if it
\* heads none
HeadedLength(h2, b) ==
    IF h2.fl[get_list_index(get_size(h2, b))] # b THEN 0
    ELSE Len(ListFrom(h2, get_list_index(get_size(h2, b)), b,
                      (h2.brk \div min_block_size) + 1))

\* a block has been freed; the caller holds a block whose free would push on
\* a list of two or more entries, and a request would split a block and push
\* the remainder on a list that is not empty
C31_Witness ==
    /\ last.freed # NULL
    /\ \E p \in live : HeadedLength(free(Heap, p), MergedBlock(p)) >= 2
    /\ \E n \in SplitSizes :
          \E m \in {malloc(Heap, heap_start, n)} :
              /\ SplitDone(m, n)
              /\ HeadedLength(m.h, find_next(m.h, payload_to_header(m.bp))) >= 2


(***************************************************************************)
(* C32: the request for a mini block.                                      *)
(***************************************************************************)
\* the requests whose adjusted size is min_block_size
MiniRequests == {1, 4, 8}

\* the lists of buckets 1..14 of heap h, each in its order
NormalLists(h) ==
    [i \in 1..(SEG_LIST_NUM - 1) |->
        ListFrom(h, i, h.fl[i], (h.brk \div min_block_size) + 1)]

\* the result m comes from the head of the mini list: nothing is split, the
\* arena keeps its size, buckets 1..14 keep their lists
ServedFromMiniHead(m) ==
    /\ m.bp = header_to_payload(segregated_free_list[0])
    /\ get_alloc(m.h, segregated_free_list[0])
    /\ m.h.fl[0] = Rd(Heap, MiniNextAt(segregated_free_list[0]))
    /\ m.h.brk = brk
    /\ BlocksOf(m.h) = Blocks
    /\ NormalLists(m.h) = NormalLists(Heap)

\* the result m is the front of a block of buckets 1..14, or of the block an
\* extension made, and the rest of that block is free again
ServedBySplit(m) ==
    \E b \in {payload_to_header(m.bp)} :
        /\ get_size(m.h, b) = min_block_size
        /\ get_alloc(m.h, b)
        /\ ~get_alloc(m.h, find_next(m.h, b))
        /\ find_next(m.h, b) = b + min_block_size
        /\ HeadedLength(m.h, find_next(m.h, b)) >= 1
        /\ \/ /\ m.h.brk = brk
              /\ \E i \in 1..(SEG_LIST_NUM - 1) : b \in ListEntries(Heap)[i]
              /\ get_size(m.h, find_next(m.h, b)) = Size(b) - min_block_size
           \/ /\ m.h.brk = brk + chunksize
              /\ FitSearch(Heap, min_block_size).block = NULL

\* C32: when the adjusted size is 16 (allocate(n) with 1 <= n <= 8) and the
\* mini list is not empty, allocate returns the payload of the head of the
\* mini list: no larger block is split, the arena is not extended and
\* buckets 1..14 are unchanged.  When the mini list is empty a request that
\* is served is served by a block of buckets 1..14 (or of an extension),
\* which is split.
C32_MiniFastPath ==
    Inited =>
        \A n \in MiniRequests :
            \E m \in {malloc(Heap, heap_start, n)} :
                IF segregated_free_list[0] # NULL
                THEN ServedFromMiniHead(m)
                ELSE m.bp # NULL => ServedBySplit(m)

\* a block has been freed, the mini list has an entry and a larger block is
\* free as well
C32_Witness ==
    /\ last.freed # NULL
    /\ last.fsize = min_block_size
    /\ segregated_free_list[0] = last.freed
    /\ \E i \in 1..(SEG_LIST_NUM - 1) : segregated_free_list[i] # NULL
    /\ malloc(Heap, heap_start, 8).bp = header_to_payload(last.freed)


(***************************************************************************)
(* C33: the predecessor the coalescer looks up.                            *)
(***************************************************************************)
\* the results of the calls of find_prev that coalesce_block(h, block) makes:
\* one in cases 2 and 4, where prev_alloc is 0, none in cases 1 and 3
PrevLookups(h, block) ==
    IF get_prev_alloc(h, block) THEN {} ELSE {find_prev(h, block)}

\* the heap free(bp) hands to coalesce_block: the block marked free and the
\* flags of its successor updated
FreeMarked(h, bp) ==
    LET block == payload_to_header(bp)
        size  == get_size(h, block)
    IN  Let1(write_block(h, block, size, FALSE, get_prev_alloc(h, block),
                         get_prev_mini(h, block)),
             LAMBDA h1 :
                update_block(h1, find_next(h1, block),
                             get_size(h1, find_next(h1, block)),
                             get_alloc(h1, find_next(h1, block)), FALSE,
                             size = min_block_size))

\* the heap extend_heap(size) hands to coalesce_block: the new block written
\* over the old epilogue and the new epilogue after it
ExtendMarked(h, size) ==
    Let1(mem_sbrk(h, size),
         LAMBDA r :
            Let1(write_block(r.h, payload_to_header(r.bp), size, FALSE,
                             get_prev_alloc(r.h, payload_to_header(r.bp)),
                             get_prev_mini(r.h, payload_to_header(r.bp))),
                 LAMBDA h1 :
                    write_epilogue(h1, find_next(h1, payload_to_header(r.bp)),
                                   FALSE, size = min_block_size)))

\* the block extend_heap writes: it starts at the old epilogue
ExtendBlock == payload_to_header(mem_sbrk(Heap, chunksize).bp)

\* q is a predecessor of block that may be merged: a block of the arena, not
\* the prologue, free, ending where block starts, either a mini block flagged
\* by prev_mini or a larger block whose footer repeats its header
FreePredecessor(h, block, q) ==
    /\ q # NULL
    /\ q >= heap_start
    /\ \E k \in 1..Len(BlocksOf(h)) : BlocksOf(h)[k] = q
    /\ ~get_alloc(h, q)
    /\ find_next(h, q) = block
    /\ IF get_prev_mini(h, block)
       THEN get_size(h, q) = min_block_size
       ELSE /\ get_size(h, q) > min_block_size
            /\ Rd(h, find_prev_footer(block)) = Rd(h, q)

\* C33: the coalescer calls find_prev only for a block whose prev_alloc bit
\* is 0, and in every reachable state the first physical block has
\* prev_alloc = 1; so the prologue is never taken for a predecessor,
\* find_prev never returns null inside coalesce_block, and whenever it is
\* used the predecessor is a free mini block (prev_mini = 1) or a free normal
\* block with a valid footer.
C33_PredecessorLookup ==
    /\ Inited => get_prev_alloc(Heap, heap_start)
    /\ \A p \in live :
          \E h1 \in {FreeMarked(Heap, p)} :
              \A q \in PrevLookups(h1, payload_to_header(p)) :
                  FreePredecessor(h1, payload_to_header(p), q)
    /\ (Inited /\ brk + chunksize <= cap) =>
          \E h1 \in {ExtendMarked(Heap, chunksize)} :
              \A q \in PrevLookups(h1, ExtendBlock) :
                  FreePredecessor(h1, ExtendBlock, q)

\* the caller holds a block whose predecessor is a free mini block and a
\* block whose predecessor is a larger free block, and the last block of the
\* arena is free
C33_Witness ==
    /\ Inited
    /\ brk + chunksize <= cap
    /\ PrevLookups(ExtendMarked(Heap, chunksize), ExtendBlock) # {}
    /\ \E p \in live :
          /\ ~get_prev_alloc(Heap, payload_to_header(p))
          /\ get_prev_mini(Heap, payload_to_header(p))
    /\ \E p \in live :
          /\ ~get_prev_alloc(Heap, payload_to_header(p))
          /\ ~get_prev_mini(Heap, payload_to_header(p))


(***************************************************************************)
(* C34: the capacity of the block returned for a request, up to the        *)
(* largest size_t.  A size_t above 2^63 is the negative number it is in    *)
(* two's complement: SIZE_MAX is -1 and 2^64 - 24 is -24.                  *)
(***************************************************************************)
\* ordinary requests and requests within 24 of 2^64
CapacitySizes == {1, 8, 9, 24, 25, 2024, -24, -7, -1}

\* the payload of the block at bp holds n bytes
HoldsRequest(h, bp, n) == ULe(n, get_size(h, payload_to_header(bp)) - wsize)

\* C34: for every request size n from 1 up to the largest value of size_t, a
\* non-null result of allocate(n) is a block whose payload capacity (block
\* size - 8) is at least n: asize = round_up(n + 8, 16) in unsigned
\* arithmetic never yields a block smaller than the request, also for n
\* within 24 of 2^64.
C34_CapacityCoversRequest ==
    \A n \in CapacitySizes :
        \E m \in {malloc(Heap, heap_start, n)} :
            m.bp # NULL => HoldsRequest(m.h, m.bp, n)


(***************************************************************************)
(* C35: the frame of a call.                                               *)
(***************************************************************************)
\* the allocations the caller holds before and after the step, without the
\* one the step returned
Kept == (live \cap live') \ {last'.ret}

\* the allocation at bp has the header size, the alloc bit and the payload
\* words in h2 that it has in h1
SameAllocation(h1, h2, bp) ==
    /\ get_size(h2, payload_to_header(bp)) = get_size(h1, payload_to_header(bp))
    /\ get_alloc(h1, payload_to_header(bp))
    /\ get_alloc(h2, payload_to_header(bp))
    /\ \A a \in PayloadWords(h1, payload_to_header(bp)) : Rd(h2, a) = Rd(h1, a)

\* the addresses whose word differs between h1 and h2
ChangedWords(h1, h2) ==
    {a \in DOMAIN h1.mem \cup DOMAIN h2.mem : Rd(h1, a) # Rd(h2, a)}

\* address a lies in a free block of heap h
InFreeBlock(h, a) ==
    \E k \in 1..Len(BlocksOf(h)) :
        /\ ~get_alloc(h, BlocksOf(h)[k])
        /\ a >= BlocksOf(h)[k]
        /\ a < find_next(h, BlocksOf(h)[k])

\* address a holds a header in h1 and in h2, and the two words differ in the
\* flags prev_alloc and prev_mini only
FlagsOnly(h1, h2, a) ==
    /\ \/ \E k \in 1..Len(BlocksOf(h1)) : BlocksOf(h1)[k] = a
       \/ a = HeapLo + h1.brk - wsize
    /\ \/ \E k \in 1..Len(BlocksOf(h2)) : BlocksOf(h2)[k] = a
       \/ a = HeapLo + h2.brk - wsize
    /\ get_size(h1, a) = get_size(h2, a)
    /\ get_alloc(h1, a) = get_alloc(h2, a)

\* address a lies in the block the step freed or in the block it returned
InOwnBlock(h2, a) ==
    \/ /\ last'.freed # NULL
       /\ a >= last'.freed
       /\ a < last'.freed + last'.fsize
    \/ /\ last'.ret # NULL
       /\ a >= payload_to_header(last'.ret)
       /\ a < find_next(h2, payload_to_header(last'.ret))

\* address a lies in the part of the arena that an extension of h1 adds
InNewArea(h1, a) == a >= HeapLo + h1.brk

\* a step of an initialized heap keeps every other allocation and writes
\* only free blocks, flag bits of headers, its own block and, when it extends
\* the arena, the added part
FrameStep ==
    Inited =>
        \E h1 \in {Heap}, h2 \in {Heap'} :
            /\ \A p \in Kept : SameAllocation(h1, h2, p)
            /\ \A a \in ChangedWords(h1, h2) :
                  \/ FlagsOnly(h1, h2, a)
                  \/ InFreeBlock(h1, a)
                  \/ InFreeBlock(h2, a)
                  \/ InOwnBlock(h2, a)
                  \/ InNewArea(h1, a)

\* C35: no allocate, free, reallocate or zeroed-allocate call changes the
\* address, the header size, the alloc bit or a payload byte of a live
\* allocation other than the block the call frees or newly returns; the
\* allocator's metadata writes (footers, list links, the head's back-link on
\* insert, successor flag updates) land only inside free blocks or in the
\* flag bits of a header word.
C35_Frame == [][FrameStep]_vars

\* a block between two allocations the caller still holds has just been
\* freed: the flags of the one after it were rewritten
C35_Witness ==
    /\ last.freed # NULL
    /\ \E p \in live : find_next(Heap, payload_to_header(p)) = last.freed
    /\ \E p \in live : /\ payload_to_header(p) = last.freed + last.fsize
                       /\ ~get_prev_alloc(Heap, payload_to_header(p))
    /\ segregated_free_list[get_list_index(last.fsize)] = last.freed
    /\ Len(FreeList(get_list_index(last.fsize))) >= 2


(***************************************************************************)
(* C36: the removals from the free lists.                                  *)
(***************************************************************************)
\* the removals coalesce_block(h, block) makes, in order: for each the heap
\* at the call of delete_normal_or_mini and the block removed
CoalesceRemovals(h, block) ==
    LET block_next == find_next(h, block)
        prev_alloc == get_prev_alloc(h, block)
        next_alloc == get_alloc(h, block_next)
    IN  IF prev_alloc /\ next_alloc THEN << >>
        ELSE IF ~prev_alloc /\ next_alloc
        THEN << [h |-> h, block |-> find_prev(h, block)] >>
        ELSE IF prev_alloc /\ ~next_alloc
        THEN << [h |-> h, block |-> block_next] >>
        ELSE << [h |-> h, block |-> block_next],
                [h |-> delete_normal_or_mini(h, block_next),
                 block |-> find_prev(h, block)] >>

\* the removals free(bp) makes
FreeRemovals(h, bp) == CoalesceRemovals(FreeMarked(h, bp), payload_to_header(bp))

\* the removals extend_heap(size) makes
ExtendRemovals(h, size) ==
    IF mem_sbrk(h, round_up(size, dsize)).bp = -1 THEN << >>
    ELSE CoalesceRemovals(ExtendMarked(h, round_up(size, dsize)),
                          payload_to_header(mem_sbrk(h, round_up(size, dsize)).bp))

\* the removals malloc makes for the adjusted size asize: those of an
\* extension, then the one of the block it places
AllocateRemovals(h, asize) ==
    Let1(find_fit(h, asize),
         LAMBDA fit :
            IF fit # NULL THEN << [h |-> h, block |-> fit] >>
            ELSE Let1(extend_heap(h, max(asize, chunksize)),
                      LAMBDA e :
                         ExtendRemovals(h, max(asize, chunksize))
                            \o (IF e.block = NULL THEN << >>
                                ELSE << [h |-> e.h, block |-> e.block] >>)))

\* the requests made of malloc
RemovalSizes == {8, 24, 40, 1000, 2024}

\* the list that delete_normal_or_mini(h, block) works on
ListOfBlock(h, block) ==
    ListFrom(h, get_list_index(get_size(h, block)),
             h.fl[get_list_index(get_size(h, block))],
             (h.brk \div min_block_size) + 1)

\* block is an entry of the list its header size selects
Linked(h, block) ==
    \E k \in 1..Len(ListOfBlock(h, block)) : ListOfBlock(h, block)[k] = block

\* the removal of block from heap h finds it: it is linked on the list of
\* its size; a mini block that is not the head is reached by the walk; a
\* normal block that is not the head has a prev link
RemovalFinds(h, block) ==
    /\ ~h.fault
    /\ block # NULL
    /\ ~get_alloc(h, block)
    /\ Linked(h, block)
    /\ IF get_size(h, block) = min_block_size
       THEN h.fl[0] # block =>
               MiniWalk(h, block, h.fl[0], Rd(h, MiniNextAt(h.fl[0])),
                        h.brk \div min_block_size) # -1
       ELSE h.fl[get_list_index(get_size(h, block))] # block =>
               /\ Rd(h, FreePrevAt(block)) # NULL
               /\ Rd(h, FreeNextAt(Rd(h, FreePrevAt(block)))) = block

AllFind(removals) ==
    \A k \in 1..Len(removals) : RemovalFinds(removals[k].h, removals[k].block)

\* C36: every removal that allocate and the coalescer make is made on a
\* block that is at that moment linked on the list selected by its current
\* header size (the removal precedes the header rewrite that changes the
\* size): the walk of the mini list reaches the block before the end of the
\* list, and in the non-head branch of the removal from a normal list the
\* block's prev link is not null.
C36_RemovalsFindBlock ==
    /\ \A p \in live : \E rs \in {FreeRemovals(Heap, p)} : AllFind(rs)
    /\ Inited =>
          \A n \in RemovalSizes :
              \E rs \in {AllocateRemovals(Heap, AdjustedSize(n))} : AllFind(rs)

\* the caller holds a block between two free mini blocks of which the one
\* after it is not the head of the mini list: freeing it walks the list
C36_Witness ==
    \E p \in live :
        \E rs \in {FreeRemovals(Heap, p)} :
            /\ Len(rs) = 2
            /\ get_size(rs[1].h, rs[1].block) = min_block_size
            /\ rs[1].h.fl[0] # rs[1].block
            /\ Len(ListOfBlock(rs[1].h, rs[1].block)) >= 2

============================================================================
